---- MODULE Spec2Model ----
(***************************************************************************)
(* Model of the Solaxy wallet snap: the RPC entry point onRpcRequest       *)
(* (src/src/index.js), key derivation (src/src/privateKey.js), the input   *)
(* assertions (utils) and the confirmation dialogs (src/src/ui.js).        *)
(*                                                                         *)
(* A request is an invocation of the async function onRpcRequest.  Every   *)
(* action below is the code that runs between two host round trips         *)
(* (snap_manageState, snap_dialog, snap_getBip32Entropy, fetch).           *)
(* JavaScript strings are TLA+ strings; hostnames, path segments and       *)
(* domains are handled character by character.                             *)
(***************************************************************************)
EXTENDS Integers, Sequences, FiniteSets, TLC

VARIABLES state, req

vars == <<state, req>>

(***************************************************************************)
(* Program constants                                                       *)
(***************************************************************************)
MAX_ARRAY_LENGTH == 100
MAX_STRING_LENGTH == 10000
MAX_BATCH_ITEMS == 10
ROOT_DOMAIN == "solaxy.io"
ROOT_SUFFIX == ".solaxy.io"

ERR_INVALID_INPUT == [code |-> -32000, message |-> "Invalid input."]
ERR_USER_REJECTED == [code |-> 4001, message |-> "User rejected the request."]
Error(msg) == [code |-> 0, message |-> msg]

ERR_NO_ORIGIN == Error("Invalid origin")
ERR_BAD_URL == Error("TypeError: Invalid URL")
ERR_HTTPS_REQUIRED == Error("Invalid origin: HTTPS required")
ERR_DOMAIN_DENIED == Error("Domain access denied by user")
ERR_UNSUPPORTED == Error("The requested method is not supported.")
ERR_DISPLAY == Error("Invalid display parameter: must be \"utf8\" or \"hex\"")

(***************************************************************************)
(* Strings                                                                 *)
(***************************************************************************)
LowerChar(c) ==
    CASE c = "A" -> "a" [] c = "C" -> "c" [] c = "E" -> "e" [] c = "I" -> "i"
      [] c = "L" -> "l" [] c = "M" -> "m" [] c = "N" -> "n" [] c = "O" -> "o"
      [] c = "P" -> "p" [] c = "R" -> "r" [] c = "S" -> "s" [] c = "T" -> "t"
      [] c = "X" -> "x" [] c = "Y" -> "y" [] OTHER -> c

RECURSIVE toLowerCase(_)
toLowerCase(s) ==
    IF Len(s) = 0 THEN ""
    ELSE LowerChar(SubSeq(s, 1, 1)) \o toLowerCase(SubSeq(s, 2, Len(s)))

endsWith(s, suffix) ==
    /\ Len(s) >= Len(suffix)
    /\ SubSeq(s, Len(s) - Len(suffix) + 1, Len(s)) = suffix

includes(list, x) == \E i \in 1..Len(list) : list[i] = x

(***************************************************************************)
(* Persisted snap state: {genesisHash, approvedDomains}.  A missing key is *)
(* the empty string / the empty list (state.approvedDomains || []).        *)
(***************************************************************************)
NoHash == ""
EmptyState == [genesisHash |-> NoHash, approvedDomains |-> <<>>]

(***************************************************************************)
(* Origins handed in by the host, and new URL(origin)                      *)
(***************************************************************************)
Url(protocol, host, port) ==
    [raw |-> "url", protocol |-> protocol, host |-> host, port |-> port]

Origins ==
    { Url("https:", "Solaxy.IO", ""),
      Url("https:", "App.solaxy.io", ""),
      Url("https:", "partner.com", ""),
      Url("https:", "Partner.COM", ""),
      Url("https:", "solaxy.io.partner.com", ""),
      Url("https:", "evilsolaxy.io", ""),
      Url("http:", "solaxy.io", ""),
      Url("http:", "partner.com", ""),
      Url("http:", "localhost", ":8080"),
      [raw |-> "empty", protocol |-> "", host |-> "", port |-> ""],
      [raw |-> "malformed", protocol |-> "", host |-> "", port |-> ""] }

\* new URL(origin): scheme and host of a special-scheme URL are lower-cased
ParseURL(origin) ==
    [protocol |-> origin.protocol,
     hostname |-> toLowerCase(origin.host),
     host |-> toLowerCase(origin.host) \o origin.port]

\* variant of isHardcodedTrusted that knows the root domain only
isHardcodedTrusted_RootOnly(hostname) ==
    LET normalized == toLowerCase(hostname)
    IN  normalized = ROOT_DOMAIN

\* variant of isHardcodedTrusted whose suffix match has no dot
isHardcodedTrusted_NoDot(hostname) ==
    LET normalized == toLowerCase(hostname)
    IN  normalized = ROOT_DOMAIN \/ endsWith(normalized, ROOT_DOMAIN)

isHardcodedTrusted(hostname) ==
    LET normalized == toLowerCase(hostname)
    IN  normalized = ROOT_DOMAIN \/ endsWith(normalized, ROOT_SUFFIX)

\* variant of isAllowedOrigin without the HTTPS requirement
isAllowedOrigin_AnyScheme(origin, st) ==
    IF origin.raw # "url" THEN FALSE
    ELSE LET url == ParseURL(origin)
             normalizedHostname == toLowerCase(url.hostname)
         IN  IF isHardcodedTrusted(normalizedHostname) THEN TRUE
             ELSE includes(st.approvedDomains, normalizedHostname)

\* variant of isAllowedOrigin that skips the lookup of the approved list
isAllowedOrigin_AnyHost(origin, st) ==
    IF origin.raw # "url" THEN FALSE
    ELSE LET url == ParseURL(origin)
         IN  IF url.protocol # "https:" THEN FALSE ELSE TRUE

\* variant of isAllowedOrigin that also allows the subdomains of an approved
\* hostname
isAllowedOrigin_SubdomainsOfApproved(origin, st) ==
    IF origin.raw # "url" THEN FALSE
    ELSE LET url == ParseURL(origin)
             normalizedHostname == toLowerCase(url.hostname)
         IN  IF url.protocol # "https:" THEN FALSE
             ELSE IF isHardcodedTrusted(normalizedHostname) THEN TRUE
             ELSE \E i \in 1..Len(st.approvedDomains) :
                     \/ st.approvedDomains[i] = normalizedHostname
                     \/ endsWith(normalizedHostname,
                                 "." \o st.approvedDomains[i])

\* isAllowedOrigin, evaluated against the persisted state st
isAllowedOrigin(origin, st) ==
    IF origin.raw # "url" THEN FALSE
    ELSE LET url == ParseURL(origin)
             normalizedHostname == toLowerCase(url.hostname)
         IN  IF url.protocol # "https:" THEN FALSE
             ELSE IF isHardcodedTrusted(normalizedHostname) THEN TRUE
             ELSE includes(st.approvedDomains, normalizedHostname)

(***************************************************************************)
(* JavaScript values of request parameters.  A string value is the text s  *)
(* followed by pad further characters "1" (so that strings longer than     *)
(* MAX_STRING_LENGTH can be written down).                                 *)
(***************************************************************************)
Undef == [t |-> "undefined", s |-> "", pad |-> 0]
Null == [t |-> "null", s |-> "", pad |-> 0]
Str(s) == [t |-> "string", s |-> s, pad |-> 0]
PaddedStr(s, pad) == [t |-> "string", s |-> s, pad |-> pad]
Num(s) == [t |-> "number", s |-> s, pad |-> 0]
Bool(b) == [t |-> "boolean", s |-> IF b THEN "true" ELSE "false", pad |-> 0]

StrLen(v) == Len(v.s) + v.pad

Arr(items) == [t |-> "array", items |-> items]
UndefArr == [t |-> "undefined", items |-> <<>>]
NotArr == [t |-> "string", items |-> <<>>]

\* Array.prototype.length as a JavaScript value
LengthOf(a) == Num(ToString(Len(a.items)))

(***************************************************************************)
(* utils: the assert* functions; each operator is TRUE when the function   *)
(* returns and FALSE when it throws                                        *)
(***************************************************************************)
assertInput(input) == ~(input.t = "null" \/ input.t = "undefined")

assertIsString(input) ==
    ~(input.t # "string" \/ StrLen(input) > MAX_STRING_LENGTH)

assertIsBoolean(input) == ~(input.t # "boolean")

\* variant of assertIsArray that forgets the length limit
assertIsArray_NoLimit(input) == ~(input.t # "array")

assertIsArray(input) ==
    ~(input.t # "array" \/ Len(input.items) > MAX_ARRAY_LENGTH)

assertAllStrings(input) ==
    ~(\/ input.t # "array"
      \/ Len(input.items) > MAX_ARRAY_LENGTH
      \/ ~ \A i \in 1..Len(input.items) :
              /\ input.items[i].t = "string"
              /\ StrLen(input.items[i]) <= MAX_STRING_LENGTH)

\* variant of assertConfirmation that only refuses an explicit false
assertConfirmation_NotFalse(confirmed) == ~(confirmed = "false")

assertConfirmation(confirmed) == ~(confirmed # "true")

\* variant of Truthy that takes everything but false for an acceptance
Truthy_NotFalse(answer) == answer # "false"

\* if (accepted) / if (!accepted): JavaScript truthiness of a dialog result
Truthy(answer) == answer = "true"

(***************************************************************************)
(* privateKey: isValidSegment and the validation at the head of            *)
(* deriveKeyPair                                                           *)
(***************************************************************************)
Digits == {"0", "1", "2", "3", "4", "5", "6", "7", "8", "9"}

AllDigits(str) == \A i \in 1..Len(str) : SubSeq(str, i, i) \in Digits

\* segment.match(/^[0-9]+'$/)
MatchesHardened(str) ==
    /\ Len(str) >= 2
    /\ SubSeq(str, Len(str), Len(str)) = "'"
    /\ AllDigits(SubSeq(str, 1, Len(str) - 1))

\* the decimal digits of index without its leading zeros
RECURSIVE StripLeadingZeros(_)
StripLeadingZeros(index) ==
    IF Len(index) > 1 /\ SubSeq(index, 1, 1) = "0"
    THEN StripLeadingZeros(SubSeq(index, 2, Len(index)))
    ELSE index

\* parseInt(index).toString() for a string of decimal digits: the leading
\* zeros are dropped, and from 10^21 on Number.prototype.toString switches to
\* exponent notation (only the first digit of its mantissa is kept here).
\* Exact for at most 15 digits and for 22 digits and more.
ParseIntToString(index) ==
    LET digits == StripLeadingZeros(index)
    IN  IF Len(digits) >= 22
        THEN SubSeq(digits, 1, 1) \o "e+" \o ToString(Len(digits) - 1)
        ELSE digits

\* variant of isValidSegment without the parseInt comparison
isValidSegment_RegexOnly(segment) ==
    IF segment.t # "string" THEN FALSE
    ELSE IF segment.pad # 0 \/ ~MatchesHardened(segment.s) THEN FALSE
    ELSE TRUE

isValidSegment(segment) ==
    IF segment.t # "string" THEN FALSE
    ELSE IF segment.pad # 0 \/ ~MatchesHardened(segment.s) THEN FALSE
    ELSE LET index == SubSeq(segment.s, 1, Len(segment.s) - 1)
         IN  IF ParseIntToString(index) # index THEN FALSE ELSE TRUE

\* path.every((segment) => isValidSegment(segment))
EverySegmentValid(path) ==
    \A i \in 1..Len(path.items) : isValidSegment(path.items[i])

\* The three assertions of deriveKeyPair: TRUE when none of them throws.
\* assertInput receives the number path.length and the boolean returned by
\* every(), and throws only for null and undefined.
deriveKeyPairValidates(path) ==
    /\ assertIsArray(path)
    /\ assertInput(LengthOf(path))
    /\ assertInput(Bool(EverySegmentValid(path)))

\* what snap_getBip32Entropy can return for m/44'/501': the node of the
\* secret recovery phrase of the wallet
RootNodes == {"rootA", "rootB"}

\* The keypair that SLIP10 derivation and nacl.sign.keyPair.fromSeed make of
\* a root node and a path
NoKeyPair == [derived |-> FALSE, root |-> "", path |-> <<>>]

\* variant of KeyPairOf that derives from one and the same root node
KeyPairOf_IgnoresRoot(rootNode, path) ==
    [derived |-> TRUE, root |-> "rootA", path |-> path.items]

KeyPairOf(rootNode, path) ==
    [derived |-> TRUE, root |-> rootNode, path |-> path.items]

(***************************************************************************)
(* bs58.decode and nacl.sign.detached                                      *)
(***************************************************************************)
Base58Alphabet ==
    {"1", "2", "3", "4", "5", "6", "7", "8", "9",
     "A", "B", "C", "D", "E", "F", "G", "H", "J", "K", "L", "M", "N", "P",
     "Q", "R", "S", "T", "U", "V", "W", "X", "Y", "Z",
     "a", "b", "c", "d", "e", "f", "g", "h", "i", "j", "k", "m", "n", "o",
     "p", "q", "r", "s", "t", "u", "v", "w", "x", "y", "z"}

\* bs58.decode(msg) throws for a character outside the alphabet
bs58Decodes(msg) == \A i \in 1..Len(msg.s) : SubSeq(msg.s, i, i) \in Base58Alphabet

\* the decoded bytes, named by the text they were decoded from
bs58Decode(msg) == [b58 |-> msg.s, pad |-> msg.pad]

\* variant of signDetached that signs with the key of the root node itself
signDetached_RootKey(bytes, keyPair) ==
    [bytes |-> bytes, key |-> [root |-> keyPair.root, path |-> <<>>]]

\* nacl.sign.detached(bytes, keyPair.secretKey): the signature is named by
\* the bytes and by the key it was made with
signDetached(bytes, keyPair) ==
    [bytes |-> bytes, key |-> [root |-> keyPair.root, path |-> keyPair.path]]

(***************************************************************************)
(* Requests: the method and the params object of the JSON-RPC request      *)
(***************************************************************************)
NoParams ==
    [derivationPath |-> UndefArr, confirm |-> Undef, message |-> Undef,
     messages |-> UndefArr, display |-> Undef, domain |-> Undef,
     chainId |-> Undef]

Repeat(v, n) == [i \in 1..n |-> v]

PathHardened == Arr(<<Str("0'")>>)
PathHardened2 == Arr(<<Str("0'"), Str("1'")>>)
PathEmpty == Arr(<<>>)
PathPlain == Arr(<<Str("0")>>)
PathH == Arr(<<Str("0'"), Str("0h")>>)
PathNumber == Arr(<<Num("0")>>)
PathLeadingZero == Arr(<<Str("01'")>>)
PathTooLong == Arr(Repeat(Str("0'"), MAX_ARRAY_LENGTH + 1))

PathLongSegment == Arr(<<PaddedStr("0'", MAX_STRING_LENGTH)>>)

\* paths of one segment each
SegmentPaths ==
    { Arr(<<Str(seg)>>) :
        seg \in {"10'", "2147483647'", "00'", "-1'", "+1'", " 1'", "1' ",
                 "1''", "'", "", "1'x", "x1'", "1.5'",
                 "999999999999999'", "1000000000000000000000'",
                 "0100000000000000000000'"} }
    \cup {Arr(<<Null>>), Arr(<<Bool(TRUE)>>)}

AllPaths ==
    {PathHardened, PathHardened2, PathEmpty, PathPlain, PathH, PathNumber,
     PathLeadingZero, PathTooLong, PathLongSegment, UndefArr, NotArr}
    \cup SegmentPaths
SomePaths == {PathHardened, PathPlain, PathTooLong}

MsgA == Str("3vQB7")
MsgB == Str("Zx9")
MsgNotBase58 == Str("0OIl")
MsgTooLong == PaddedStr("3vQB7", MAX_STRING_LENGTH)

WithMethod(method, params) == [method |-> method, params |-> params]

ChainRequests ==
    { WithMethod(m, NoParams) :
        m \in {"eth_chainId", "wallet_addEthereumChain", "getChainId",
               "getChainConfig", "getCurrentChain", "noSuchMethod"} }
    \cup { WithMethod("wallet_switchEthereumChain", [NoParams EXCEPT !.chainId = c]) :
             c \in {Undef, Str("solaxy:mainnet"), Str("eip155:1")} }

PublicKeyRequests ==
    { WithMethod("getPublicKey", [NoParams EXCEPT !.derivationPath = p]) :
        p \in AllPaths }
    \cup { WithMethod("getPublicKey",
                      [NoParams EXCEPT !.derivationPath = p, !.confirm = c]) :
             p \in {PathHardened, PathPlain},
             c \in {Bool(TRUE), Bool(FALSE), Str("yes")} }

SignTransactionRequests ==
    { WithMethod("signTransaction",
                 [NoParams EXCEPT !.derivationPath = p, !.message = m]) :
        p \in SomePaths \cup {PathEmpty, UndefArr},
        m \in {MsgA, MsgNotBase58, Undef, Null, MsgTooLong} }

SignAllRequests ==
    { WithMethod("signAllTransactions",
                 [NoParams EXCEPT !.derivationPath = p, !.messages = Arr(ms)]) :
        p \in SomePaths,
        ms \in {<<MsgA>>, <<MsgA, MsgB>>, <<MsgA, MsgNotBase58>>, <<>>,
                <<MsgA, Num("7")>>, <<MsgTooLong>>,
                [i \in 1..MAX_BATCH_ITEMS |->
                    IF i % 2 = 1 THEN MsgB ELSE MsgA],
                [i \in 1..(MAX_BATCH_ITEMS + 1) |->
                    IF i % 2 = 1 THEN MsgA ELSE MsgB],
                Repeat(MsgA, MAX_ARRAY_LENGTH + 1)} }
    \cup { WithMethod("signAllTransactions",
                      [NoParams EXCEPT !.derivationPath = PathHardened,
                                       !.messages = a]) :
             a \in {UndefArr, NotArr} }

SignMessageRequests ==
    { WithMethod("signMessage",
                 [NoParams EXCEPT !.derivationPath = p, !.message = m,
                                  !.display = d]) :
        p \in {PathHardened, PathPlain},
        m \in {MsgA, MsgNotBase58, Undef},
        d \in {Undef, Str("hex"), Str("base64"), Num("1")} }

DomainRequests ==
    { WithMethod("listApprovedDomains", NoParams),
      WithMethod("revokeAllDomains", NoParams) }
    \cup { WithMethod("revokeDomain", [NoParams EXCEPT !.domain = d]) :
             d \in {Undef, Str("partner.com"), Str("Partner.COM"),
                    Str("evilsolaxy.io"), Str("solaxy.io"), Num("5"),
                    PaddedStr("partner.com", MAX_STRING_LENGTH)} }

Requests ==
    ChainRequests \cup PublicKeyRequests \cup SignTransactionRequests
    \cup SignAllRequests \cup SignMessageRequests \cup DomainRequests

(***************************************************************************)
(* Host answers                                                            *)
(***************************************************************************)
\* result of snap_dialog for a confirmation (null: the dialog was closed)
DialogAnswers == {"true", "false", "null"}

\* what fetch of the RPC endpoint can end in
GenesisResults == {"GenesisA", "GenesisB"}
FetchOutcomes ==
    { [kind |-> "ok", result |-> g] : g \in GenesisResults }
    \cup { [kind |-> k, result |-> ""] :
             k \in {"abort", "network", "status", "empty"} }

(***************************************************************************)
(* A running invocation of onRpcRequest                                    *)
(***************************************************************************)
Slots == {"r1", "r2"}

NoError == [code |-> 0, message |-> ""]
NoValue ==
    [t |-> "undefined", chainId |-> "", genesisHash |-> "",
     publicKey |-> NoKeyPair, signatures |-> <<>>,
     revoked |-> "", count |-> 0, domain |-> "", domains |-> <<>>]
NoResult == [kind |-> "none", error |-> NoError, value |-> NoValue]

NoOrigin == [raw |-> "empty", protocol |-> "", host |-> "", port |-> ""]

\* ui.js: the longest text that a dialog shows in full
MAX_COPYABLE_CHARS == 1200

\* safeCopyable: the labelled text of a dialog, cut when it is too long
safeCopyable(label, value) ==
    [label |-> label, text |-> value.s,
     truncated |-> StrLen(value) > MAX_COPYABLE_CHARS]

\* one listed entry of a dialog: its caption "Transaction index of count"
\* (0 of 0 when the dialog has no caption) and its labelled text
PanelItem(index, count, copy) == [index |-> index, of |-> count, copy |-> copy]

\* the content of a signing dialog; NoPanel before any is rendered
NoPanel == [heading |-> "", host |-> "", items |-> <<>>, notice |-> FALSE]

renderSignTransaction(host, message) ==
    [heading |-> "Sign transaction", host |-> host,
     items |-> <<PanelItem(0, 0, safeCopyable("Transaction (base58):", message))>>,
     notice |-> FALSE]

\* variant of renderSignAllTransactions without the case of a single message
renderSignAllTransactions_NoSingleCase(host, messages) ==
    LET count == Len(messages.items)
        shown == IF count < MAX_BATCH_ITEMS THEN count ELSE MAX_BATCH_ITEMS
    IN  [heading |-> "Sign transactions", host |-> host,
         items |-> [i \in 1..shown |->
                      PanelItem(i, count,
                          safeCopyable("Transaction (base58):", messages.items[i]))],
         notice |-> count > shown]

\* variant of renderSignAllTransactions that lists the last items of a long
\* batch and adds the notice from MAX_BATCH_ITEMS messages on
renderSignAllTransactions_LastItems(host, messages) ==
    LET count == Len(messages.items)
        shown == IF count < MAX_BATCH_ITEMS THEN count ELSE MAX_BATCH_ITEMS
    IN  IF count = 1 THEN renderSignTransaction(host, messages.items[1])
        ELSE [heading |-> "Sign transactions", host |-> host,
              items |-> [i \in 1..shown |->
                           PanelItem(count - shown + i, count,
                               safeCopyable("Transaction (base58):",
                                            messages.items[count - shown + i]))],
              notice |-> count >= MAX_BATCH_ITEMS]

renderSignAllTransactions(host, messages) ==
    LET count == Len(messages.items)
        shown == IF count < MAX_BATCH_ITEMS THEN count ELSE MAX_BATCH_ITEMS
    IN  IF count = 1 THEN renderSignTransaction(host, messages.items[1])
        ELSE [heading |-> "Sign transactions", host |-> host,
              items |-> [i \in 1..shown |->
                           PanelItem(i, count,
                               safeCopyable("Transaction (base58):", messages.items[i]))],
              notice |-> count > shown]

\* the text that signMessage shows for the decoded bytes of message:
\* hexadecimal digits after "0x", or the bytes read as UTF-8
decodedText(message, display) ==
    IF display = Str("hex")
    THEN Str("0x" \o "hex(" \o bs58Decode(message).b58 \o ")")
    ELSE Str("utf8(" \o bs58Decode(message).b58 \o ")")

renderSignMessage(host, decoded) ==
    [heading |-> "Sign message", host |-> host,
     items |-> <<PanelItem(0, 0, safeCopyable("Message:", decoded))>>,
     notice |-> FALSE]

Idle ==
    [pc |-> "idle", origin |-> NoOrigin, method |-> "", params |-> NoParams,
     st |-> EmptyState, keyPair |-> NoKeyPair, cfg |-> NoHash,
     everyValid |-> "", shown |-> 0, panel |-> NoPanel,
     pre |-> EmptyState, events |-> <<>>, result |-> NoResult]

\* an entry of the log of host calls of a request
Event(e, a) == [e |-> e, a |-> a]

Log(rec, e, a) == [rec EXCEPT !.events = Append(@, Event(e, a))]

\* the answer of the host to the call logged last
Answer(rec, a) ==
    LET n == Len(rec.events)
    IN  [rec EXCEPT !.events[n] = Event(rec.events[n].e, a)]

Throw(rec, error) ==
    [rec EXCEPT !.pc = "thrown",
                !.result = [kind |-> "throw", error |-> error, value |-> NoValue]]

Return(rec, value) ==
    [rec EXCEPT !.pc = "returned",
                !.result = [kind |-> "return", error |-> NoError, value |-> value]]

(***************************************************************************)
(* Chain identity: getGenesisHash and getResolvedChainConfig               *)
(***************************************************************************)
ChainIdOf(genesisHash) == "solana:" \o genesisHash

ChainIdValue(genesisHash) ==
    [NoValue EXCEPT !.t = "chainId", !.chainId = ChainIdOf(genesisHash)]

ConfigValue(genesisHash) ==
    [NoValue EXCEPT !.t = "config", !.chainId = ChainIdOf(genesisHash),
                    !.genesisHash = genesisHash]

SignMethods == {"signTransaction", "signAllTransactions", "signMessage"}
ConfigMethods ==
    {"eth_chainId", "wallet_switchEthereumChain", "getChainId",
     "getChainConfig", "getCurrentChain"}

\* renderSignAllTransactions: how many of the messages the dialog lists
ShownItems(messages) ==
    LET count == Len(messages.items)
    IN  IF count = 1 THEN 1
        ELSE IF count < MAX_BATCH_ITEMS THEN count ELSE MAX_BATCH_ITEMS

\* variant of AfterConfig in which signMessage shows its dialog before it
\* decodes the message
AfterConfig_ShowsUndecoded(rec, genesisHash) ==
    LET m == rec.method
        p == rec.params
        dappHost == ParseURL(rec.origin).host
        r1 == [rec EXCEPT !.cfg = genesisHash]
    IN  CASE m \in {"eth_chainId", "getChainId"} ->
                Return(r1, ChainIdValue(genesisHash))
          [] m \in {"getChainConfig", "getCurrentChain"} ->
                Return(r1, ConfigValue(genesisHash))
          [] m = "wallet_switchEthereumChain" ->
                IF /\ p.chainId # Str(ChainIdOf(genesisHash))
                   /\ p.chainId # Str("solaxy:mainnet")
                THEN Throw(r1, Error("Only Solaxy Mainnet is supported"))
                ELSE Return(r1, ConfigValue(genesisHash))
          [] m = "signTransaction" ->
                Log([r1 EXCEPT !.pc = "signConfirm", !.shown = 1,
                       !.panel = renderSignTransaction(dappHost, p.message)],
                    "dialog:signTransaction", "pending")
          [] m = "signAllTransactions" ->
                Log([r1 EXCEPT !.pc = "signConfirm",
                       !.shown = ShownItems(p.messages),
                       !.panel = renderSignAllTransactions(dappHost, p.messages)],
                    "dialog:signAllTransactions", "pending")
          [] m = "signMessage" ->
                Log([r1 EXCEPT !.pc = "signConfirm", !.shown = 1,
                       !.panel = renderSignMessage(dappHost, p.message)],
                    "dialog:signMessage", "pending")

\* The code that runs once getResolvedChainConfig has returned the
\* configuration cfg of genesisHash, up to the next host call
AfterConfig(rec, genesisHash) ==
    LET m == rec.method
        p == rec.params
        dappHost == ParseURL(rec.origin).host
        r1 == [rec EXCEPT !.cfg = genesisHash]
    IN  CASE m \in {"eth_chainId", "getChainId"} ->
                Return(r1, ChainIdValue(genesisHash))
          [] m \in {"getChainConfig", "getCurrentChain"} ->
                Return(r1, ConfigValue(genesisHash))
          [] m = "wallet_switchEthereumChain" ->
                IF /\ p.chainId # Str(ChainIdOf(genesisHash))
                   /\ p.chainId # Str("solaxy:mainnet")
                THEN Throw(r1, Error("Only Solaxy Mainnet is supported"))
                ELSE Return(r1, ConfigValue(genesisHash))
          [] m = "signTransaction" ->
                Log([r1 EXCEPT !.pc = "signConfirm", !.shown = 1,
                       !.panel = renderSignTransaction(dappHost, p.message)],
                    "dialog:signTransaction", "pending")
          [] m = "signAllTransactions" ->
                Log([r1 EXCEPT !.pc = "signConfirm",
                       !.shown = ShownItems(p.messages),
                       !.panel = renderSignAllTransactions(dappHost, p.messages)],
                    "dialog:signAllTransactions", "pending")
          [] m = "signMessage" ->
                IF ~bs58Decodes(p.message)
                THEN Throw(r1, Error("Invalid base58 message"))
                ELSE Log([r1 EXCEPT !.pc = "signConfirm", !.shown = 1,
                            !.panel = renderSignMessage(dappHost,
                                          decodedText(p.message, p.display))],
                         "dialog:signMessage", "pending")

\* variant of getGenesisHash that does not look at the cached value
getGenesisHash_NoCache(rec, st) ==
    Log([rec EXCEPT !.pc = "fetch", !.st = st], "fetch", "pending")

\* getGenesisHash up to its first host call after reading the state st
getGenesisHash(rec, st) ==
    IF st.genesisHash # NoHash
    THEN AfterConfig(rec, st.genesisHash)
    ELSE Log([rec EXCEPT !.pc = "fetch", !.st = st], "fetch", "pending")

FetchError(kind) ==
    IF kind = "abort"
    THEN Error("Request timeout: failed to fetch genesis hash from Solaxy RPC")
    ELSE Error("Failed to resolve Solaxy genesis hash: " \o kind)

(***************************************************************************)
(* onRpcRequest                                                            *)
(***************************************************************************)
Init ==
    /\ state = EmptyState
    /\ req = [r \in Slots |-> Idle]

AllIdle == \A r \in Slots : req[r].pc = "idle"

\* variant of Enter that asks for the approval of an origin of any scheme
Enter_ApprovesAnyScheme(r, origin, rq) ==
    LET rec == [Idle EXCEPT !.origin = origin, !.method = rq.method,
                            !.params = rq.params, !.pre = state]
    IN  /\ req[r].pc = "idle"
        /\ req' = [req EXCEPT ![r] =
              IF origin.raw = "empty" THEN Throw(rec, ERR_NO_ORIGIN)
              ELSE IF origin.raw = "malformed" THEN Throw(rec, ERR_BAD_URL)
              ELSE IF isAllowedOrigin(origin, state)
                   THEN [rec EXCEPT !.pc = "dispatch"]
              ELSE Log([rec EXCEPT !.pc = "approval"],
                       "dialog:domainApproval", "pending")]
        /\ UNCHANGED state

\* Entry of onRpcRequest up to the first dialog: the origin check
Enter(r, origin, rq) ==
    LET rec == [Idle EXCEPT !.origin = origin, !.method = rq.method,
                            !.params = rq.params, !.pre = state]
    IN  /\ req[r].pc = "idle"
        /\ req' = [req EXCEPT ![r] =
              IF origin.raw = "empty" THEN Throw(rec, ERR_NO_ORIGIN)
              ELSE IF origin.raw = "malformed" THEN Throw(rec, ERR_BAD_URL)
              ELSE IF isAllowedOrigin(origin, state)
                   THEN [rec EXCEPT !.pc = "dispatch"]
              ELSE IF ParseURL(origin).protocol = "https:"
                   THEN Log([rec EXCEPT !.pc = "approval"],
                            "dialog:domainApproval", "pending")
              ELSE Throw(rec, ERR_HTTPS_REQUIRED)]
        /\ UNCHANGED state

\* Requests are taken one at a time: the host hands over a request when no
\* other invocation is running
Start(r) ==
    /\ AllIdle
    /\ \E origin \in Origins, rq \in Requests : Enter(r, origin, rq)

\* variant of DomainApproval that appends without looking for the hostname
DomainApproval_NoDedupe(r, accepted) ==
    LET rec == Answer(req[r], accepted)
    IN  /\ req[r].pc = "approval"
        /\ req' = [req EXCEPT ![r] =
              IF ~Truthy(accepted) THEN Throw(rec, ERR_DOMAIN_DENIED)
              ELSE [rec EXCEPT !.pc = "approvalSetState", !.st = state]]
        /\ UNCHANGED state

\* requestDomainApproval after the dialog returned, and its caller
DomainApproval(r, accepted) ==
    LET rec == Answer(req[r], accepted)
        normalizedHostname == toLowerCase(ParseURL(rec.origin).hostname)
    IN  /\ req[r].pc = "approval"
        /\ req' = [req EXCEPT ![r] =
              IF ~Truthy(accepted) THEN Throw(rec, ERR_DOMAIN_DENIED)
              ELSE IF ~includes(state.approvedDomains, normalizedHostname)
                   THEN [rec EXCEPT !.pc = "approvalSetState", !.st = state]
              ELSE [rec EXCEPT !.pc = "dispatch"]]
        /\ UNCHANGED state

\* variant of ApprovalSetState whose setState writes the approved list alone
ApprovalSetState_DropsGenesis(r) ==
    LET rec == req[r]
        normalizedHostname == toLowerCase(ParseURL(rec.origin).hostname)
    IN  /\ rec.pc = "approvalSetState"
        /\ state' = [EmptyState EXCEPT !.approvedDomains =
                        Append(rec.st.approvedDomains, normalizedHostname)]
        /\ req' = [req EXCEPT ![r] =
                      Log([rec EXCEPT !.pc = "dispatch"], "setState", "")]

\* variant of ApprovalSetState that does not persist the hostname
ApprovalSetState_NoWrite(r) ==
    LET rec == req[r]
    IN  /\ rec.pc = "approvalSetState"
        /\ state' = rec.st
        /\ req' = [req EXCEPT ![r] =
                      Log([rec EXCEPT !.pc = "dispatch"], "setState", "")]

\* setState of requestDomainApproval
ApprovalSetState(r) ==
    LET rec == req[r]
        normalizedHostname == toLowerCase(ParseURL(rec.origin).hostname)
    IN  /\ rec.pc = "approvalSetState"
        /\ state' = [rec.st EXCEPT !.approvedDomains =
                                      Append(@, normalizedHostname)]
        /\ req' = [req EXCEPT ![r] =
                      Log([rec EXCEPT !.pc = "dispatch"], "setState", "")]

\* const { confirm = false } and const { display = 'utf8' }
DefaultTo(v, d) == IF v.t = "undefined" THEN d ELSE v

ListValue(approvedDomains) ==
    [NoValue EXCEPT !.t = "list", !.domains = approvedDomains,
                    !.count = Len(approvedDomains)]

ERR_NOT_APPROVED == Error("Domain not in approved list")

ToEntropy(rec) ==
    Log([rec EXCEPT !.pc = "entropy",
                    !.everyValid =
                        Bool(EverySegmentValid(rec.params.derivationPath)).s],
        "getBip32Entropy", "pending")

\* variant of signAllTransactionsEntry that leaves the size of the batch to
\* the signing loop
signAllTransactionsEntry_NoBatchLimit(rec) ==
    LET p == rec.params
    IN  IF p.messages.t # "array"
        THEN Throw(rec, ERR_INVALID_INPUT)
        ELSE IF ~deriveKeyPairValidates(p.derivationPath)
        THEN Throw(rec, ERR_INVALID_INPUT)
        ELSE ToEntropy(rec)

\* case 'signAllTransactions' up to the host call of deriveKeyPair
signAllTransactionsEntry(rec) ==
    LET p == rec.params
    IN  IF \/ ~assertIsArray(p.messages)
           \/ ~assertInput(LengthOf(p.messages))
           \/ ~assertAllStrings(p.messages)
        THEN Throw(rec, ERR_INVALID_INPUT)
        ELSE IF ~deriveKeyPairValidates(p.derivationPath)
        THEN Throw(rec, ERR_INVALID_INPUT)
        ELSE ToEntropy(rec)

\* variant of revokeDomainEntry that asks for confirmation before it looks
\* the domain up
revokeDomainEntry_AlwaysAsks(rec, st) ==
    LET p == rec.params
    IN  IF ~assertInput(p.domain) \/ ~assertIsString(p.domain)
        THEN Throw(rec, ERR_INVALID_INPUT)
        ELSE Log([rec EXCEPT !.pc = "revokeConfirm", !.st = st],
                 "dialog:revokeDomain", "pending")

\* case 'revokeDomain' up to its confirmation dialog, st being the state
\* that getState returned
revokeDomainEntry(rec, st) ==
    LET p == rec.params
        approvedDomains == st.approvedDomains
    IN  IF ~assertInput(p.domain) \/ ~assertIsString(p.domain)
        THEN Throw(rec, ERR_INVALID_INPUT)
        ELSE IF \/ p.domain.pad # 0
                \/ ~includes(approvedDomains, toLowerCase(p.domain.s))
        THEN Throw(rec, ERR_NOT_APPROVED)
        ELSE Log([rec EXCEPT !.pc = "revokeConfirm", !.st = st],
                 "dialog:revokeDomain", "pending")

\* The switch statement up to the first host call of the method
Dispatch(r) ==
    LET rec == req[r]
        m == rec.method
        p == rec.params
        toEntropy == ToEntropy(rec)
        approvedDomains == state.approvedDomains
    IN  /\ rec.pc = "dispatch"
        /\ req' = [req EXCEPT ![r] =
             CASE m \in ConfigMethods -> getGenesisHash(rec, state)
               [] m = "wallet_addEthereumChain" ->
                     Return(rec, [NoValue EXCEPT !.t = "null"])
               [] m = "getPublicKey" ->
                     IF ~assertIsBoolean(DefaultTo(p.confirm, Bool(FALSE)))
                     THEN Throw(rec, ERR_INVALID_INPUT)
                     ELSE IF ~deriveKeyPairValidates(p.derivationPath)
                     THEN Throw(rec, ERR_INVALID_INPUT)
                     ELSE toEntropy
               [] m = "signTransaction" ->
                     IF ~assertInput(p.message) \/ ~assertIsString(p.message)
                     THEN Throw(rec, ERR_INVALID_INPUT)
                     ELSE IF ~deriveKeyPairValidates(p.derivationPath)
                     THEN Throw(rec, ERR_INVALID_INPUT)
                     ELSE toEntropy
               [] m = "signAllTransactions" -> signAllTransactionsEntry(rec)
               [] m = "signMessage" ->
                     IF \/ ~assertInput(p.message)
                        \/ ~assertIsString(p.message)
                        \/ ~assertIsString(DefaultTo(p.display, Str("utf8")))
                     THEN Throw(rec, ERR_INVALID_INPUT)
                     ELSE IF DefaultTo(p.display, Str("utf8"))
                                \notin {Str("utf8"), Str("hex")}
                     THEN Throw(rec, ERR_DISPLAY)
                     ELSE IF ~deriveKeyPairValidates(p.derivationPath)
                     THEN Throw(rec, ERR_INVALID_INPUT)
                     ELSE toEntropy
               [] m = "listApprovedDomains" ->
                     Return(rec, ListValue(approvedDomains))
               [] m = "revokeDomain" -> revokeDomainEntry(rec, state)
               [] m = "revokeAllDomains" ->
                     IF Len(approvedDomains) = 0
                     THEN Return(rec, [NoValue EXCEPT !.t = "revokedAll"])
                     ELSE Log([rec EXCEPT !.pc = "revokeAllConfirm", !.st = state],
                              "dialog:revokeAllDomains", "pending")
               [] OTHER -> Throw(rec, ERR_UNSUPPORTED)]
        /\ UNCHANGED state

\* variant of getPublicKeyResult that never asks
getPublicKeyResult_NoDialog(derived) ==
    Return(derived, [NoValue EXCEPT !.t = "publicKey",
                                    !.publicKey = derived.keyPair])

\* case 'getPublicKey' after deriveKeyPair returned
getPublicKeyResult(derived) ==
    IF DefaultTo(derived.params.confirm, Bool(FALSE)) = Bool(TRUE)
    THEN Log([derived EXCEPT !.pc = "publicKeyConfirm"],
             "dialog:getPublicKey", "pending")
    ELSE Return(derived, [NoValue EXCEPT !.t = "publicKey",
                                         !.publicKey = derived.keyPair])

\* deriveKeyPair after snap_getBip32Entropy returned: SLIP10Node.derive and
\* nacl.sign.keyPair.fromSeed, then the caller up to its next host call.
\* The key-tree library accepts a list of hardened segments; what it does
\* with any other list (libraryThrows) is left open.
Entropy(r, rootNode, libraryThrows) ==
    LET rec == Answer(req[r], rootNode)
        m == rec.method
        p == rec.params
        path == p.derivationPath
        wellFormed == Len(path.items) > 0 /\ EverySegmentValid(path)
        derived == [rec EXCEPT !.keyPair = KeyPairOf(rootNode, path)]
    IN  /\ req[r].pc = "entropy"
        /\ libraryThrows => ~wellFormed
        /\ req' = [req EXCEPT ![r] =
              IF libraryThrows
              THEN Throw(rec, Error("Invalid HD path segment"))
              ELSE IF m = "getPublicKey"
              THEN getPublicKeyResult(derived)
              ELSE getGenesisHash(derived, state)]
        /\ UNCHANGED state

\* variant of Fetch without the check of json.result
Fetch_NoResultCheck(r, outcome) ==
    LET rec == Answer(req[r], outcome.kind)
    IN  /\ req[r].pc = "fetch"
        /\ IF outcome.kind \in {"ok", "empty"}
           THEN /\ state' = [rec.st EXCEPT !.genesisHash = outcome.result]
                /\ req' = [req EXCEPT ![r] =
                      AfterConfig(Log(rec, "setState", ""), outcome.result)]
           ELSE /\ req' = [req EXCEPT ![r] = Throw(rec, FetchError(outcome.kind))]
                /\ UNCHANGED state

\* variant of Fetch whose setState writes the genesis hash alone
Fetch_Overwrite(r, outcome) ==
    LET rec == Answer(req[r], outcome.kind)
    IN  /\ req[r].pc = "fetch"
        /\ IF outcome.kind = "ok"
           THEN /\ state' = [EmptyState EXCEPT !.genesisHash = outcome.result]
                /\ req' = [req EXCEPT ![r] =
                      AfterConfig(Log(rec, "setState", ""), outcome.result)]
           ELSE /\ req' = [req EXCEPT ![r] = Throw(rec, FetchError(outcome.kind))]
                /\ UNCHANGED state

\* getGenesisHash after fetch settled: the response checks and setState
Fetch(r, outcome) ==
    LET rec == Answer(req[r], outcome.kind)
    IN  /\ req[r].pc = "fetch"
        /\ IF outcome.kind = "ok"
           THEN /\ state' = [rec.st EXCEPT !.genesisHash = outcome.result]
                /\ req' = [req EXCEPT ![r] =
                      AfterConfig(Log(rec, "setState", ""), outcome.result)]
           ELSE /\ req' = [req EXCEPT ![r] = Throw(rec, FetchError(outcome.kind))]
                /\ UNCHANGED state

SignedValue(rec, t, signatures) ==
    [NoValue EXCEPT !.t = t, !.publicKey = rec.keyPair,
                    !.signatures = signatures,
                    !.chainId = ChainIdOf(rec.cfg)]

\* variant of signAllResult that leaves the undecodable messages out
signAllResult_SkipsUndecodable(rec) ==
    LET decodable == SelectSeq(rec.params.messages.items, bs58Decodes)
    IN  Return(rec, SignedValue(rec, "signatures",
               [i \in 1..Len(decodable) |->
                  signDetached(bs58Decode(decodable[i]), rec.keyPair)]))

\* variant of signAllResult that signs the messages the dialog has listed
signAllResult_ShownOnly(rec) ==
    LET msgs == rec.params.messages.items
    IN  IF \E i \in 1..Len(msgs) : ~bs58Decodes(msgs[i])
        THEN Throw(rec, Error("Invalid base58 transaction in batch"))
        ELSE Return(rec, SignedValue(rec, "signatures",
                   [i \in 1..rec.shown |->
                      signDetached(bs58Decode(msgs[i]), rec.keyPair)]))

\* case 'signAllTransactions' after assertConfirmation: messages.map
signAllResult(rec) ==
    LET msgs == rec.params.messages.items
    IN  IF \E i \in 1..Len(msgs) : ~bs58Decodes(msgs[i])
        THEN Throw(rec, Error("Invalid base58 transaction in batch"))
        ELSE Return(rec, SignedValue(rec, "signatures",
                   [i \in 1..Len(msgs) |->
                      signDetached(bs58Decode(msgs[i]), rec.keyPair)]))

\* The signing methods after their confirmation dialog returned
SignConfirm(r, accepted) ==
    LET rec == Answer(req[r], accepted)
        m == rec.method
        p == rec.params
        msgs == p.messages.items
    IN  /\ req[r].pc = "signConfirm"
        /\ req' = [req EXCEPT ![r] =
              IF ~assertConfirmation(accepted)
              THEN Throw(rec, ERR_USER_REJECTED)
              ELSE CASE m = "signTransaction" ->
                          IF ~bs58Decodes(p.message)
                          THEN Throw(rec, Error("Invalid base58 transaction"))
                          ELSE Return(rec, SignedValue(rec, "signature",
                                 <<signDetached(bs58Decode(p.message), rec.keyPair)>>))
                     [] m = "signAllTransactions" -> signAllResult(rec)
                     [] m = "signMessage" ->
                          Return(rec, SignedValue(rec, "signature",
                                 <<signDetached(bs58Decode(p.message), rec.keyPair)>>))]
        /\ UNCHANGED state

\* getPublicKey with confirm = true after its dialog returned
PublicKeyConfirm(r, accepted) ==
    LET rec == Answer(req[r], accepted)
    IN  /\ req[r].pc = "publicKeyConfirm"
        /\ req' = [req EXCEPT ![r] =
              IF ~assertConfirmation(accepted)
              THEN Throw(rec, ERR_USER_REJECTED)
              ELSE Return(rec, [NoValue EXCEPT !.t = "publicKey",
                                               !.publicKey = rec.keyPair])]
        /\ UNCHANGED state

\* variant of Without that also drops the subdomains of x
Without_Suffix(list, x) == SelectSeq(list, LAMBDA d : ~endsWith(d, x))

Without(list, x) == SelectSeq(list, LAMBDA d : d # x)

\* variant of RevokeConfirm that writes whatever the dialog returned
RevokeConfirm_IgnoresAnswer(r, accepted) ==
    LET rec == Answer(req[r], accepted)
        normalizedDomain == toLowerCase(rec.params.domain.s)
        approvedDomains == rec.st.approvedDomains
    IN  /\ req[r].pc = "revokeConfirm"
        /\ state' = [rec.st EXCEPT !.approvedDomains =
                        SelectSeq(approvedDomains, LAMBDA d : d # normalizedDomain)]
        /\ req' = [req EXCEPT ![r] =
              IF ~Truthy(accepted)
              THEN Return(Log(rec, "setState", ""),
                          [NoValue EXCEPT !.t = "revoked", !.revoked = "false"])
              ELSE Return(Log(rec, "setState", ""),
                          [NoValue EXCEPT !.t = "revoked", !.revoked = "true",
                                          !.domain = normalizedDomain])]

\* revokeDomain after its dialog returned
RevokeConfirm(r, accepted) ==
    LET rec == Answer(req[r], accepted)
        normalizedDomain == toLowerCase(rec.params.domain.s)
        approvedDomains == rec.st.approvedDomains
    IN  /\ req[r].pc = "revokeConfirm"
        /\ IF ~Truthy(accepted)
           THEN /\ req' = [req EXCEPT ![r] =
                      Return(rec, [NoValue EXCEPT !.t = "revoked",
                                                  !.revoked = "false"])]
                /\ UNCHANGED state
           ELSE /\ state' = [rec.st EXCEPT !.approvedDomains =
                                Without(approvedDomains, normalizedDomain)]
                /\ req' = [req EXCEPT ![r] =
                      Return(Log(rec, "setState", ""),
                             [NoValue EXCEPT !.t = "revoked", !.revoked = "true",
                                             !.domain = normalizedDomain])]

\* variant of RevokeAllConfirm that reports the list as it is after the write
RevokeAllConfirm_ReportsAfter(r, accepted) ==
    LET rec == Answer(req[r], accepted)
    IN  /\ req[r].pc = "revokeAllConfirm"
        /\ IF ~Truthy(accepted)
           THEN /\ req' = [req EXCEPT ![r] =
                      Return(rec, [NoValue EXCEPT !.t = "revokedAll"])]
                /\ UNCHANGED state
           ELSE /\ state' = [rec.st EXCEPT !.approvedDomains = <<>>]
                /\ req' = [req EXCEPT ![r] =
                      Return(Log(rec, "setState", ""),
                             [NoValue EXCEPT !.t = "revokedAll",
                                             !.count = Len(state'.approvedDomains),
                                             !.domains = state'.approvedDomains])]

\* variant of RevokeAllConfirm that resets the whole persisted state
RevokeAllConfirm_ClearsState(r, accepted) ==
    LET rec == Answer(req[r], accepted)
        approvedDomains == rec.st.approvedDomains
    IN  /\ req[r].pc = "revokeAllConfirm"
        /\ IF ~Truthy(accepted)
           THEN /\ req' = [req EXCEPT ![r] =
                      Return(rec, [NoValue EXCEPT !.t = "revokedAll"])]
                /\ UNCHANGED state
           ELSE /\ state' = EmptyState
                /\ req' = [req EXCEPT ![r] =
                      Return(Log(rec, "setState", ""),
                             [NoValue EXCEPT !.t = "revokedAll",
                                             !.count = Len(approvedDomains),
                                             !.domains = approvedDomains])]

\* revokeAllDomains after its dialog returned
RevokeAllConfirm(r, accepted) ==
    LET rec == Answer(req[r], accepted)
        approvedDomains == rec.st.approvedDomains
    IN  /\ req[r].pc = "revokeAllConfirm"
        /\ IF ~Truthy(accepted)
           THEN /\ req' = [req EXCEPT ![r] =
                      Return(rec, [NoValue EXCEPT !.t = "revokedAll"])]
                /\ UNCHANGED state
           ELSE /\ state' = [rec.st EXCEPT !.approvedDomains = <<>>]
                /\ req' = [req EXCEPT ![r] =
                      Return(Log(rec, "setState", ""),
                             [NoValue EXCEPT !.t = "revokedAll",
                                             !.count = Len(approvedDomains),
                                             !.domains = approvedDomains])]

\* The promise of onRpcRequest has settled and the host has answered the caller
Finish(r) ==
    /\ req[r].pc \in {"returned", "thrown"}
    /\ req' = [req EXCEPT ![r] = Idle]
    /\ UNCHANGED state

Next ==
    \E r \in Slots :
        \/ Start(r)
        \/ \E a \in DialogAnswers : DomainApproval(r, a)
        \/ ApprovalSetState(r)
        \/ Dispatch(r)
        \/ \E n \in RootNodes, b \in BOOLEAN : Entropy(r, n, b)
        \/ \E o \in FetchOutcomes : Fetch(r, o)
        \/ \E a \in DialogAnswers : SignConfirm(r, a)
        \/ \E a \in DialogAnswers : PublicKeyConfirm(r, a)
        \/ \E a \in DialogAnswers : RevokeConfirm(r, a)
        \/ \E a \in DialogAnswers : RevokeAllConfirm(r, a)
        \/ Finish(r)

Spec == Init /\ [][Next]_vars

(***************************************************************************)
(* Overlapping requests: onRpcRequest is async, so the host can deliver a  *)
(* request while another one is suspended at an await.                     *)
(***************************************************************************)
OverlapOrigins == { Url("https:", "Partner.COM", "") }

OverlapRequests ==
    { WithMethod("listApprovedDomains", NoParams),
      WithMethod("revokeAllDomains", NoParams),
      WithMethod("revokeDomain", [NoParams EXCEPT !.domain = Str("partner.com")]),
      WithMethod("getPublicKey",
                 [NoParams EXCEPT !.derivationPath = PathHardened,
                                  !.confirm = Bool(TRUE)]),
      WithMethod("signTransaction",
                 [NoParams EXCEPT !.derivationPath = PathHardened,
                                  !.message = MsgA]) }

\* Entry of onRpcRequest whatever the other requests are doing
StartOverlap(r) ==
    \E origin \in OverlapOrigins, rq \in OverlapRequests : Enter(r, origin, rq)

NextOverlap ==
    \E r \in Slots :
        \/ StartOverlap(r)
        \/ \E a \in DialogAnswers : DomainApproval(r, a)
        \/ ApprovalSetState(r)
        \/ Dispatch(r)
        \/ \E n \in RootNodes, b \in BOOLEAN : Entropy(r, n, b)
        \/ \E o \in FetchOutcomes : Fetch(r, o)
        \/ \E a \in DialogAnswers : SignConfirm(r, a)
        \/ \E a \in DialogAnswers : PublicKeyConfirm(r, a)
        \/ \E a \in DialogAnswers : RevokeConfirm(r, a)
        \/ \E a \in DialogAnswers : RevokeAllConfirm(r, a)
        \/ Finish(r)

SpecOverlap == Init /\ [][NextOverlap]_vars

TypeOK ==
    /\ state.genesisHash \in {NoHash} \cup GenesisResults
    /\ \A r \in Slots : req[r].pc \in
          {"idle", "approval", "approvalSetState", "dispatch", "entropy",
           "fetch", "signConfirm", "publicKeyConfirm", "revokeConfirm",
           "revokeAllConfirm", "returned", "thrown"}

(***************************************************************************)
(* Vocabulary of the properties                                            *)
(***************************************************************************)
Active(rec) == rec.pc # "idle"

HasEvent(rec, e) == \E i \in 1..Len(rec.events) : rec.events[i].e = e

IsUrl(origin) == origin.raw = "url"
IsHttps(origin) == origin.raw = "url" /\ origin.protocol = "https:"
HostOf(origin) == toLowerCase(origin.host)

\* the hostname is the root trusted domain or ends with "." and the root domain
IsRootOrSubdomain(h) ==
    \/ h = "solaxy.io"
    \/ Len(h) > 10 /\ SubSeq(h, Len(h) - 9, Len(h)) = ".solaxy.io"

\* errors thrown by the origin check
GatewayErrors ==
    {ERR_NO_ORIGIN, ERR_BAD_URL, ERR_HTTPS_REQUIRED, ERR_DOMAIN_DENIED}

\* the request got through the origin check and reached the switch statement
ReachedDispatch(rec) ==
    \/ rec.pc \in {"dispatch", "entropy", "fetch", "signConfirm",
                   "publicKeyConfirm", "revokeConfirm", "revokeAllConfirm",
                   "returned"}
    \/ rec.pc = "thrown" /\ rec.result.error \notin GatewayErrors

DeriveMethods == {"getPublicKey"} \cup SignMethods

\* a segment without the trailing apostrophe, e.g. "0", 0, "0h"
LacksHardenedMarker(segment) ==
    \/ segment.t # "string"
    \/ segment.pad # 0
    \/ Len(segment.s) = 0
    \/ SubSeq(segment.s, Len(segment.s), Len(segment.s)) # "'"

(***************************************************************************)
(* C1: in signTransaction, signAllTransactions and signMessage a signature *)
(* is returned only if the signing confirmation dialog of that request     *)
(* returned exactly true; on any other answer the request fails with       *)
(* ERR_USER_REJECTED (code 4001) and returns no signature.                 *)
(***************************************************************************)
C1_SignatureOnlyAfterConfirmation ==
    \A r \in Slots :
        LET rec == req[r]
            dialog == "dialog:" \o rec.method
        IN  /\ Len(rec.result.value.signatures) > 0 =>
                 /\ rec.method \in SignMethods
                 /\ \E i \in 1..Len(rec.events) :
                        rec.events[i] = Event(dialog, "true")
            /\ rec.method \in SignMethods =>
                 /\ rec.pc = "returned" =>
                       \E i \in 1..Len(rec.events) :
                           rec.events[i] = Event(dialog, "true")
                 /\ \A i \in 1..Len(rec.events) :
                       (rec.events[i].e = dialog
                          /\ rec.events[i].a \notin {"true", "pending"}) =>
                            /\ rec.pc = "thrown"
                            /\ rec.result.error = ERR_USER_REJECTED
                            /\ rec.result.error.code = 4001
                            /\ rec.result.value.signatures = <<>>

C1_Witness ==
    \E r \in Slots :
        /\ req[r].method \in SignMethods
        /\ req[r].pc = "returned"
        /\ Len(req[r].result.value.signatures) > 0
        /\ req[r].events[Len(req[r].events)].a = "true"

(***************************************************************************)
(* C2: a derivation path array with a segment lacking the hardened form    *)
(* makes deriveKeyPair fail in its own validation, before root entropy is  *)
(* requested from the host.                                                *)
(***************************************************************************)
C2_NonHardenedPathRejectedBeforeEntropy ==
    \A r \in Slots :
        LET rec == req[r]
            path == rec.params.derivationPath
        IN  (/\ rec.method \in DeriveMethods
             /\ path.t = "array"
             /\ \E i \in 1..Len(path.items) : LacksHardenedMarker(path.items[i]))
            => /\ ~HasEvent(rec, "getBip32Entropy")
               /\ ~rec.keyPair.derived

(***************************************************************************)
(* C3: deriveKeyPair with an empty path array fails with the invalid-input *)
(* error and never requests root entropy or returns a keypair.             *)
(***************************************************************************)
C3_EmptyPathRejectedBeforeEntropy ==
    \A r \in Slots :
        LET rec == req[r]
        IN  (rec.method \in DeriveMethods /\ rec.params.derivationPath = PathEmpty)
            => /\ ~HasEvent(rec, "getBip32Entropy")
               /\ ~rec.keyPair.derived

(***************************************************************************)
(* C4: deriveKeyPair with a path of more than 100 segments, or with a path *)
(* that is not an array, fails with ERR_INVALID_INPUT before root entropy  *)
(* is requested: such a request never requests entropy, never holds a      *)
(* keypair, never returns, and once it is past the origin check (and, in   *)
(* signMessage, the display check) the error it throws is                  *)
(* ERR_INVALID_INPUT.                                                      *)
(***************************************************************************)
C4_OversizedOrNonArrayPathRejected ==
    \A r \in Slots :
        LET rec == req[r]
            path == rec.params.derivationPath
        IN  (/\ rec.method \in DeriveMethods
             /\ (path.t # "array" \/ Len(path.items) > 100))
            => /\ ~HasEvent(rec, "getBip32Entropy")
               /\ ~rec.keyPair.derived
               /\ rec.pc \notin {"entropy", "returned"}
               /\ (rec.pc = "thrown"
                     /\ rec.result.error \notin GatewayErrors \cup {ERR_DISPLAY})
                    => rec.result.error = ERR_INVALID_INPUT

C4_Witness ==
    \E r \in Slots :
        /\ req[r].method = "getPublicKey"
        /\ req[r].params.derivationPath = PathTooLong
        /\ req[r].pc = "thrown"
        /\ req[r].result.error = ERR_INVALID_INPUT

(***************************************************************************)
(* C5, as stated: every origin whose hostname is the root trusted domain   *)
(* or ends with ".solaxy.io" (case-insensitively) is let through by the    *)
(* origin check without an approval dialog, whatever the Trust Store       *)
(* holds.                                                                  *)
(***************************************************************************)
C5_RootDomainOriginAllowed ==
    \A r \in Slots :
        LET rec == req[r]
        IN  (Active(rec) /\ IsUrl(rec.origin)
               /\ IsRootOrSubdomain(HostOf(rec.origin)))
            => /\ ReachedDispatch(rec)
               /\ ~HasEvent(rec, "dialog:domainApproval")

(***************************************************************************)
(* C5, amended: every HTTPS origin whose hostname is the root trusted      *)
(* domain or ends with ".solaxy.io" (case-insensitively) is let through by *)
(* the origin check without an approval dialog, whatever the Trust Store   *)
(* holds.                                                                  *)
(***************************************************************************)
C5_HttpsRootDomainOriginAllowed ==
    \A r \in Slots :
        LET rec == req[r]
        IN  (Active(rec) /\ IsHttps(rec.origin)
               /\ IsRootOrSubdomain(HostOf(rec.origin)))
            => /\ ReachedDispatch(rec)
               /\ ~HasEvent(rec, "dialog:domainApproval")

C5_Witness ==
    \E r \in Slots :
        /\ req[r].origin = Url("https:", "App.solaxy.io", "")
        /\ req[r].pc = "returned"
        /\ req[r].events = <<>>
        /\ Len(state.approvedDomains) > 0

(***************************************************************************)
(* C6: a request whose origin is not HTTPS and whose hostname is not       *)
(* localhost is denied with the origin error, without any dialog and       *)
(* without a change of the Trust Store, also when its hostname is          *)
(* hardcoded-trusted or in the Trust Store.                                *)
(***************************************************************************)
C6_NonHttpsOriginDenied ==
    \A r \in Slots :
        LET rec == req[r]
        IN  (Active(rec) /\ IsUrl(rec.origin) /\ ~IsHttps(rec.origin)
               /\ HostOf(rec.origin) # "localhost")
            => /\ rec.pc = "thrown"
               /\ rec.result.error = ERR_HTTPS_REQUIRED
               /\ rec.events = <<>>
               /\ state = rec.pre

C6_Witness ==
    \E r \in Slots :
        /\ req[r].origin = Url("http:", "partner.com", "")
        /\ req[r].pc = "thrown"
        /\ includes(state.approvedDomains, "partner.com")

(***************************************************************************)
(* C7: a request from http://localhost (any port) is let through by the    *)
(* origin check and reaches method dispatch.                               *)
(***************************************************************************)
C7_LocalhostAllowed ==
    \A r \in Slots :
        LET rec == req[r]
        IN  (Active(rec) /\ IsUrl(rec.origin) /\ rec.origin.protocol = "http:"
               /\ HostOf(rec.origin) = "localhost")
            => ReachedDispatch(rec)

(***************************************************************************)
(* C8: a request from an HTTPS origin whose hostname is neither hardcoded  *)
(* trusted nor in the Trust Store reaches method dispatch, and any         *)
(* entropy request, chain resolution or signing, only after the domain     *)
(* approval dialog was shown in that request and accepted.                 *)
(***************************************************************************)
C8_UnknownOriginNeedsApproval ==
    \A r \in Slots :
        LET rec == req[r]
        IN  (/\ Active(rec) /\ IsHttps(rec.origin)
             /\ ~IsRootOrSubdomain(HostOf(rec.origin))
             /\ ~includes(rec.pre.approvedDomains, HostOf(rec.origin)))
            => /\ Len(rec.events) > 0
               /\ rec.events[1].e = "dialog:domainApproval"
               /\ (ReachedDispatch(rec) \/ Len(rec.events) > 1
                     \/ rec.keyPair.derived \/ rec.result.kind = "return")
                    => rec.events[1].a = "true"

C8_Witness ==
    \E r \in Slots :
        /\ req[r].origin = Url("https:", "evilsolaxy.io", "")
        /\ ~includes(req[r].pre.approvedDomains, "evilsolaxy.io")
        /\ req[r].pc = "returned"
        /\ Len(req[r].result.value.signatures) > 0

(***************************************************************************)
(* C9: when the user rejects the domain approval dialog the request fails  *)
(* with 'Domain access denied by user', the Trust Store is unchanged and   *)
(* no method is dispatched; when the user accepts, the lowercase hostname  *)
(* is in the Trust Store afterwards, from the return of                    *)
(* requestDomainApproval up to a revocation written by the request itself. *)
(***************************************************************************)
C9_ApprovalOutcome ==
    \A r \in Slots :
        LET rec == req[r]
        IN  HasEvent(rec, "dialog:domainApproval") =>
              /\ rec.events[1].a \in {"false", "null"} =>
                    /\ rec.pc = "thrown"
                    /\ rec.result.error = ERR_DOMAIN_DENIED
                    /\ ~ReachedDispatch(rec)
                    /\ Len(rec.events) = 1
                    /\ state = rec.pre
              /\ (/\ rec.events[1].a = "true"
                  /\ rec.pc # "approvalSetState"
                  /\ ~(rec.method \in {"revokeDomain", "revokeAllDomains"}
                         /\ rec.events[Len(rec.events)].e = "setState"))
                   => includes(state.approvedDomains, HostOf(rec.origin))

C9_Witness ==
    \E r \in Slots :
        /\ req[r].origin = Url("https:", "Partner.COM", "")
        /\ req[r].pc = "dispatch"
        /\ req[r].events[1] = Event("dialog:domainApproval", "true")
        /\ ~includes(req[r].pre.approvedDomains, "partner.com")
        /\ includes(state.approvedDomains, "partner.com")

(***************************************************************************)
(* C10: once a hostname has been approved by the user (it is in the Trust  *)
(* Store), it stays there until a revokeDomain for it or a                 *)
(* revokeAllDomains is accepted, and every request that arrives meanwhile  *)
(* from an HTTPS origin with that hostname is let through without an       *)
(* approval dialog.                                                        *)
(***************************************************************************)
AcceptedRevoke(r, h) ==
    \/ /\ req[r].pc = "revokeConfirm"
       /\ toLowerCase(req[r].params.domain.s) = h
       /\ req'[r].result.value.revoked = "true"
    \/ /\ req[r].pc = "revokeAllConfirm"
       /\ req'[r].result.value.count > 0

C10_ApprovedHostStaysAllowed ==
    [][ \A i \in 1..Len(state.approvedDomains) :
          LET h == state.approvedDomains[i]
          IN  /\ ~includes(state'.approvedDomains, h) =>
                    \E r \in Slots : AcceptedRevoke(r, h)
              /\ \A r \in Slots :
                    (/\ req[r].pc = "idle" /\ req'[r].pc # "idle"
                     /\ IsHttps(req'[r].origin)
                     /\ HostOf(req'[r].origin) = h)
                    => /\ req'[r].pc = "dispatch"
                       /\ req'[r].events = <<>> ]_vars

C10_Witness ==
    \E r \in Slots :
        /\ req[r].origin = Url("https:", "Partner.COM", "")
        /\ includes(req[r].pre.approvedDomains, "partner.com")
        /\ req[r].pre.genesisHash # NoHash
        /\ req[r].pc = "returned"
        /\ ~HasEvent(req[r], "dialog:domainApproval")

(***************************************************************************)
(* Revocation                                                              *)
(***************************************************************************)
\* x is one of the entries of list
InList(list, x) == \E i \in 1..Len(list) : list[i] = x

NoDuplicates(list) ==
    \A i, j \in 1..Len(list) : list[i] = list[j] => i = j

\* the lower-cased domain parameter of a revokeDomain request
DomainParam(rec) == toLowerCase(rec.params.domain.s)

\* the domain parameter is a string that passes the input checks
HasDomainString(rec) ==
    /\ rec.method = "revokeDomain"
    /\ rec.params.domain.t = "string"
    /\ rec.params.domain.pad = 0

\* the dialog e of the request has been answered with a
AnsweredWith(rec, e, a) ==
    \E i \in 1..Len(rec.events) : rec.events[i] = Event(e, a)

RevokeDialogs == {"dialog:revokeDomain", "dialog:revokeAllDomains"}

\* C12: revokeDomain for a domain whose lower-case form is not in the approved
\* list fails with 'Domain not in approved list' in the step that looks the
\* domain up: that step shows no dialog (the log of host calls does not grow)
\* and leaves the persisted state as it is.
C12_RevokeAbsentDomainFailsFast ==
    [][ \A r \in Slots :
          (/\ req[r].pc = "dispatch"
           /\ req'[r].pc # "dispatch"
           /\ HasDomainString(req[r])
           /\ ~InList(state.approvedDomains, DomainParam(req[r])))
          => /\ req'[r].pc = "thrown"
             /\ req'[r].result.error = Error("Domain not in approved list")
             /\ req'[r].events = req[r].events
             /\ ~HasEvent(req'[r], "dialog:revokeDomain")
             /\ state' = state ]_vars

\* an authorized origin asked to revoke a domain that is absent from a
\* non-empty list and got the error without any host call
C12_Witness ==
    \E r \in Slots :
        /\ req[r].pc = "thrown"
        /\ HasDomainString(req[r])
        /\ req[r].params.domain = Str("evilsolaxy.io")
        /\ req[r].result.error = Error("Domain not in approved list")
        /\ req[r].events = <<>>
        /\ InList(state.approvedDomains, "partner.com")
        /\ state = req[r].pre

\* C13: an accepted revokeDomain for a listed domain removes exactly that
\* entry, keeps every other hostname (in order) and the cached genesis hash,
\* and returns revoked = true with the lower-cased domain.
C13_AcceptedRevokeRemovesExactlyThatEntry ==
    [][ \A r \in Slots :
          (/\ req[r].pc = "revokeConfirm"
           /\ AnsweredWith(req'[r], "dialog:revokeDomain", "true"))
          => LET n == DomainParam(req[r])
                 before == state.approvedDomains
                 after == state'.approvedDomains
             IN  /\ InList(before, n)
                 /\ ~InList(after, n)
                 /\ Len(after) = Len(before) - 1
                 /\ \A i \in 1..Len(before) :
                       before[i] # n => InList(after, before[i])
                 /\ \A i \in 1..Len(after) : InList(before, after[i])
                 /\ state'.genesisHash = state.genesisHash
                 /\ req'[r].pc = "returned"
                 /\ req'[r].result.value.revoked = "true"
                 /\ req'[r].result.value.domain = n ]_vars

\* "Partner.COM" was revoked while one of its subdomains was approved and a
\* genesis hash was cached
C13_Witness ==
    \E r \in Slots :
        /\ req[r].pc = "returned"
        /\ req[r].params.domain = Str("Partner.COM")
        /\ AnsweredWith(req[r], "dialog:revokeDomain", "true")
        /\ req[r].result.value.domain = "partner.com"
        /\ InList(req[r].pre.approvedDomains, "partner.com")
        /\ InList(state.approvedDomains, "solaxy.io.partner.com")
        /\ state.genesisHash # NoHash

\* C14: an accepted revokeAllDomains leaves the approved list empty and returns
\* as domains the hostnames approved just before, with their count.
C14_AcceptedRevokeAllReturnsPreviousList ==
    [][ \A r \in Slots :
          (/\ req[r].pc = "revokeAllConfirm"
           /\ AnsweredWith(req'[r], "dialog:revokeAllDomains", "true"))
          => /\ state'.approvedDomains = <<>>
             /\ state'.genesisHash = state.genesisHash
             /\ req'[r].pc = "returned"
             /\ req'[r].result.value.domains = state.approvedDomains
             /\ req'[r].result.value.count = Len(state.approvedDomains) ]_vars

\* two approved hostnames were revoked at once
C14_Witness ==
    \E r \in Slots :
        /\ req[r].pc = "returned"
        /\ req[r].method = "revokeAllDomains"
        /\ AnsweredWith(req[r], "dialog:revokeAllDomains", "true")
        /\ req[r].result.value.count = 2
        /\ Len(req[r].result.value.domains) = 2
        /\ state.approvedDomains = <<>>

RevokeMethods == {"revokeDomain", "revokeAllDomains"}

\* the user declined the revocation dialog of the request or closed it
DeclinedRevoke(rec) ==
    \E e \in RevokeDialogs :
        AnsweredWith(rec, e, "false") \/ AnsweredWith(rec, e, "null")

AcceptedRevokeDialog(rec) ==
    \E e \in RevokeDialogs : AnsweredWith(rec, e, "true")

\* the persisted state once the origin check of the request is over: the state
\* at entry, with the host of the origin appended if its approval was accepted
\* and written
StateAfterGateway(rec) ==
    IF /\ AnsweredWith(rec, "dialog:domainApproval", "true")
       /\ HasEvent(rec, "setState")
    THEN [rec.pre EXCEPT !.approvedDomains = Append(@, HostOf(rec.origin))]
    ELSE rec.pre

\* C15 as stated: a revocation request changes the approved list only after
\* its confirmation dialog was accepted, and after a declined dialog the
\* persisted state is exactly the state before the request.
C15_DeclinedRevokeLeavesStateAsBeforeRequest ==
    \A r \in Slots :
        req[r].method \in RevokeMethods =>
            /\ state # StateAfterGateway(req[r]) => AcceptedRevokeDialog(req[r])
            /\ DeclinedRevoke(req[r]) => state = req[r].pre

\* C15: a revocation request changes the persisted state only after its
\* confirmation dialog was accepted; after a declined dialog the request
\* returns without a revocation and the persisted state is the state before
\* the request, plus the host of the calling origin if its domain approval was
\* accepted earlier in the same request.
C15_DeclinedRevokeWritesNothing ==
    \A r \in Slots :
        req[r].method \in RevokeMethods =>
            /\ state # StateAfterGateway(req[r]) => AcceptedRevokeDialog(req[r])
            /\ DeclinedRevoke(req[r]) =>
                  /\ state = StateAfterGateway(req[r])
                  /\ ~HasEvent(req[r], "dialog:domainApproval")
                        => state = req[r].pre
                  /\ req[r].pc = "returned"
                  /\ req[r].result.value.revoked # "true"
                  /\ req[r].result.value.count = 0

\* an origin approved in this very request declined to revoke a listed domain
C15_Witness ==
    \E r \in Slots :
        /\ req[r].method = "revokeDomain"
        /\ AnsweredWith(req[r], "dialog:domainApproval", "true")
        /\ AnsweredWith(req[r], "dialog:revokeDomain", "false")
        /\ InList(req[r].pre.approvedDomains, DomainParam(req[r]))
        /\ req[r].pc = "returned"
        /\ state # req[r].pre

(***************************************************************************)
(* Validation and the origin check                                         *)
(***************************************************************************)
IsDialog(e) ==
    e \in {"dialog:domainApproval", "dialog:signTransaction",
           "dialog:signAllTransactions", "dialog:signMessage",
           "dialog:getPublicKey", "dialog:revokeDomain",
           "dialog:revokeAllDomains"}

\* a signAllTransactions request with an array of more than 100 messages
OversizedBatch(rec) ==
    /\ rec.method = "signAllTransactions"
    /\ rec.params.messages.t = "array"
    /\ Len(rec.params.messages.items) > 100

OriginDenied(rec) ==
    \/ Active(rec) /\ IsUrl(rec.origin) /\ ~IsHttps(rec.origin)
    \/ AnsweredWith(rec, "dialog:domainApproval", "false")
    \/ AnsweredWith(rec, "dialog:domainApproval", "null")

\* C18: a request whose origin was denied has settled with an origin error,
\* has not requested entropy, holds no keypair and has not resolved the chain.
C18_DeniedOriginTouchesNoKeyMaterial ==
    \A r \in Slots :
        OriginDenied(req[r]) =>
            /\ req[r].pc = "thrown"
            /\ req[r].result.error \in {ERR_HTTPS_REQUIRED, ERR_DOMAIN_DENIED}
            /\ ~HasEvent(req[r], "getBip32Entropy")
            /\ ~HasEvent(req[r], "fetch")
            /\ req[r].keyPair = NoKeyPair
            /\ req[r].cfg = NoHash
            /\ state = req[r].pre

\* a valid signTransaction from an unknown origin whose approval was closed
C18_Witness ==
    \E r \in Slots :
        /\ req[r].method = "signTransaction"
        /\ req[r].params.derivationPath = PathHardened
        /\ req[r].params.message = MsgA
        /\ AnsweredWith(req[r], "dialog:domainApproval", "null")
        /\ req[r].pc = "thrown"

(***************************************************************************)
(* Chain resolution                                                        *)
(***************************************************************************)
\* the methods whose handler resolves the chain identity
ResolvingMethods == ConfigMethods \cup SignMethods

CountEvents(rec, e) ==
    Cardinality({i \in 1..Len(rec.events) : rec.events[i].e = e})

FetchFailures == {"abort", "network", "status", "empty"}

\* C19: while a genesis hash is cached, a request makes no outbound request,
\* the cached hash stays as it is, and every chain identity the request
\* resolves or returns is that hash and the chain id made of it.
C19_CachedGenesisServedWithoutNetwork ==
    \A r \in Slots :
        LET rec == req[r]
            cached == rec.pre.genesisHash
        IN  (Active(rec) /\ cached # "") =>
                /\ ~HasEvent(rec, "fetch")
                /\ rec.pc # "fetch"
                /\ state.genesisHash = cached
                /\ rec.cfg \in {"", cached}
                /\ (rec.pc = "returned" /\ rec.method \in ResolvingMethods) =>
                      /\ rec.cfg = cached
                      /\ rec.result.value.chainId = "solana:" \o cached
                /\ (rec.pc = "returned" /\
                    rec.method \in {"getChainConfig", "getCurrentChain"}) =>
                      rec.result.value.genesisHash = cached

\* getChainConfig answered from the cache
C19_Witness ==
    \E r \in Slots :
        /\ req[r].method = "getChainConfig"
        /\ req[r].pre.genesisHash = "GenesisB"
        /\ req[r].pc = "returned"
        /\ req[r].result.value.genesisHash = "GenesisB"
        /\ req[r].result.value.chainId = "solana:GenesisB"
        /\ req[r].events = <<>>

\* C20: a request whose outbound request failed (timeout, transport failure,
\* non-success status, missing result) has thrown a chain-resolution error,
\* has made exactly one outbound request and no write after it, and has left
\* the persisted state, without a cached hash, as it was.
C20_FailedResolutionCachesNothing ==
    \A r \in Slots :
        LET rec == req[r]
            n == Len(rec.events)
        IN  (\E k \in FetchFailures : AnsweredWith(rec, "fetch", k)) =>
                /\ rec.pc = "thrown"
                /\ rec.result.error \in
                      {Error("Request timeout: failed to fetch genesis hash from Solaxy RPC")}
                      \cup {Error("Failed to resolve Solaxy genesis hash: " \o k) :
                              k \in FetchFailures}
                /\ CountEvents(rec, "fetch") = 1
                /\ rec.events[n].e = "fetch"
                /\ state = StateAfterGateway(rec)
                /\ state.genesisHash = ""
                /\ rec.cfg = ""

\* the RPC answered without a result while a hostname was approved
C20_Witness ==
    \E r \in Slots :
        /\ AnsweredWith(req[r], "fetch", "empty")
        /\ req[r].pc = "thrown"
        /\ req[r].method = "signTransaction"
        /\ Len(state.approvedDomains) > 0
        /\ state.genesisHash = ""

(***************************************************************************)
(* The approved list under overlapping requests                            *)
(***************************************************************************)
\* C11: the approved list never holds a hostname twice, neither as persisted
\* nor as returned by listApprovedDomains: an accepted approval of a hostname
\* that is already in the list writes nothing.
C11_NoDuplicateApprovedDomain ==
    /\ NoDuplicates(state.approvedDomains)
    /\ \A r \in Slots :
          /\ (req[r].pc = "returned" /\ req[r].method = "listApprovedDomains")
                => NoDuplicates(req[r].result.value.domains)
          /\ req[r].pc = "approvalSetState"
                => ~InList(req[r].st.approvedDomains, HostOf(req[r].origin))

\* partner.com was approved twice, by two requests that overlapped, and
\* listApprovedDomains returned it once
C11_Witness ==
    \E r, q \in Slots :
        /\ r # q
        /\ HostOf(req[r].origin) = "partner.com"
        /\ HostOf(req[q].origin) = "partner.com"
        /\ AnsweredWith(req[r], "dialog:domainApproval", "true")
        /\ AnsweredWith(req[q], "dialog:domainApproval", "true")
        /\ HasEvent(req[r], "setState")
        /\ ~HasEvent(req[q], "setState")
        /\ req[q].method = "listApprovedDomains"
        /\ req[q].pc = "returned"
        /\ req[q].result.value.domains = <<"partner.com">>
        /\ state.approvedDomains = <<"partner.com">>

(***************************************************************************)
(* The cached genesis hash over a sequence of requests                     *)
(***************************************************************************)
\* C21: once the persisted genesis hash is non-empty, no step of any request
\* changes or clears it.
C21_GenesisHashIsWriteOnce ==
    [][ state.genesisHash # "" => state'.genesisHash = state.genesisHash ]_vars

\* with a hash cached, a new origin has been approved and all domains have
\* then been revoked by the same request; the hash is still there
C21_Witness ==
    \E r \in Slots :
        /\ req[r].pre.genesisHash = "GenesisA"
        /\ AnsweredWith(req[r], "dialog:domainApproval", "true")
        /\ AnsweredWith(req[r], "dialog:revokeAllDomains", "true")
        /\ req[r].pc = "returned"
        /\ state.approvedDomains = <<>>
        /\ state.genesisHash = "GenesisA"

(***************************************************************************)
(* Signing                                                                 *)
(***************************************************************************)
\* the text has a character that base58 does not have
HasForeignChar(str) ==
    \E i \in 1..Len(str) : SubSeq(str, i, i) \in {"0", "O", "I", "l"}

\* the messages of a signAllTransactions request that passed validation
BatchOf(rec) == rec.params.messages.items

HasUndecodableItem(rec) ==
    /\ rec.method = "signAllTransactions"
    /\ rec.params.messages.t = "array"
    /\ \E i \in 1..Len(BatchOf(rec)) : HasForeignChar(BatchOf(rec)[i].s)

\* C22: a batch with an undecodable message never returns: no signature of
\* any of its items reaches the caller, and once the confirmation has been
\* accepted the request has failed with the decode error of the batch.
C22_BatchIsAllOrNothing ==
    \A r \in Slots :
        HasUndecodableItem(req[r]) =>
            /\ req[r].pc # "returned"
            /\ req[r].result.value.signatures = <<>>
            /\ AnsweredWith(req[r], "dialog:signAllTransactions", "true") =>
                  /\ req[r].pc = "thrown"
                  /\ req[r].result.error =
                        Error("Invalid base58 transaction in batch")

\* a batch whose first message decodes and whose second does not was accepted
C22_Witness ==
    \E r \in Slots :
        /\ req[r].method = "signAllTransactions"
        /\ BatchOf(req[r]) = <<MsgA, MsgNotBase58>>
        /\ AnsweredWith(req[r], "dialog:signAllTransactions", "true")
        /\ req[r].pc = "thrown"

\* C23: a signAllTransactions that returned has one signature for each
\* message, in the order of the messages, each made over the decoded bytes of
\* its message with the key of the request, however many of the messages the
\* dialog has listed.
C23_OneSignaturePerMessageInOrder ==
    \A r \in Slots :
        (req[r].method = "signAllTransactions" /\ req[r].pc = "returned") =>
            LET sigs == req[r].result.value.signatures
                msgs == BatchOf(req[r])
            IN  /\ Len(sigs) = Len(msgs)
                /\ \A i \in 1..Len(msgs) :
                      /\ sigs[i].bytes.b58 = msgs[i].s
                      /\ sigs[i].key.path = req[r].params.derivationPath.items
                /\ req[r].shown <= 10

\* eleven messages, ten of them listed in the dialog, eleven signatures
C23_Witness ==
    \E r \in Slots :
        /\ req[r].method = "signAllTransactions"
        /\ req[r].pc = "returned"
        /\ Len(BatchOf(req[r])) = 11
        /\ req[r].shown = 10
        /\ Len(req[r].result.value.signatures) = 11
        /\ req[r].result.value.signatures[11].bytes.b58 = MsgA.s
        /\ req[r].result.value.signatures[10].bytes.b58 = MsgB.s

(***************************************************************************)
(* getPublicKey                                                            *)
(***************************************************************************)
UserRejected == [code |-> 4001, message |-> "User rejected the request."]

\* C24: getPublicKey shows its dialog exactly when confirm is true; a dialog
\* that is not accepted ends in the user-rejected error without a public
\* key; with confirm absent or false the key is returned, without a dialog,
\* as soon as it is derived.
C24_PublicKeyDialogIffConfirm ==
    \A r \in Slots :
        LET rec == req[r]
            confirm == rec.params.confirm
            asked == HasEvent(rec, "dialog:getPublicKey")
        IN  rec.method = "getPublicKey" =>
                /\ asked => confirm = Bool(TRUE)
                /\ (confirm = Bool(TRUE) /\ rec.keyPair.derived) => asked
                /\ (confirm = Bool(TRUE) /\ rec.pc = "returned") =>
                      AnsweredWith(rec, "dialog:getPublicKey", "true")
                /\ (AnsweredWith(rec, "dialog:getPublicKey", "false") \/
                    AnsweredWith(rec, "dialog:getPublicKey", "null")) =>
                      /\ rec.pc = "thrown"
                      /\ rec.result.error = UserRejected
                      /\ rec.result.value.publicKey = NoKeyPair
                /\ (confirm \in {Undef, Bool(FALSE)} /\ rec.keyPair.derived) =>
                      /\ ~asked
                      /\ rec.pc = "returned"
                      /\ rec.result.value.publicKey = rec.keyPair

\* a closed dialog, and a key returned without any dialog
C24_Witness ==
    \E r \in Slots :
        /\ req[r].method = "getPublicKey"
        /\ req[r].params.confirm = Bool(TRUE)
        /\ AnsweredWith(req[r], "dialog:getPublicKey", "null")
        /\ req[r].pc = "thrown"
        /\ req[r].keyPair.derived

(***************************************************************************)
(* Size limits and refusals                                                *)
(***************************************************************************)
TooLong(v) == v.t = "string" /\ Len(v.s) + v.pad > 10000

\* the request carries, in a parameter that its method reads, a string of
\* more than 10,000 characters or an array of more than 100 elements
OversizedParam(rec) ==
    LET p == rec.params
    IN  \/ rec.method \in {"signTransaction", "signMessage"} /\ TooLong(p.message)
        \/ rec.method = "signMessage" /\ TooLong(p.display)
        \/ rec.method = "revokeDomain" /\ TooLong(p.domain)
        \/ /\ rec.method = "signAllTransactions"
           /\ p.messages.t = "array"
           /\ \/ Len(p.messages.items) > 100
              \/ \E i \in 1..Len(p.messages.items) : TooLong(p.messages.items[i])
        \/ /\ rec.method \in DeriveMethods
           /\ p.derivationPath.t = "array"
           /\ \/ Len(p.derivationPath.items) > 100
              \/ \E i \in 1..Len(p.derivationPath.items) :
                    TooLong(p.derivationPath.items[i])

\* C25: a request with an oversized parameter that has got through the origin
\* check and through the validation of its method has failed with the
\* invalid-input error.
C25_OversizedParameterRejected ==
    \A r \in Slots :
        (/\ OversizedParam(req[r])
         /\ ReachedDispatch(req[r])
         /\ req[r].pc # "dispatch")
        => /\ req[r].pc = "thrown"
           /\ req[r].result.error = ERR_INVALID_INPUT

AllDialogs ==
    {"dialog:domainApproval", "dialog:signTransaction",
     "dialog:signAllTransactions", "dialog:signMessage",
     "dialog:getPublicKey", "dialog:revokeDomain", "dialog:revokeAllDomains"}

Refused(rec, e) == AnsweredWith(rec, e, "false") \/ AnsweredWith(rec, e, "null")

\* C26 as stated: a request in which the user has refused a dialog, whichever
\* it is, has ended with an error.
C26_EveryRefusalIsAnError ==
    \A r \in Slots :
        (\E e \in AllDialogs : Refused(req[r], e)) =>
            /\ req[r].pc = "thrown"
            /\ req[r].result.kind = "throw"

\* C26: a refused domain approval ends the request with the access-denied
\* error, a refused signing or public-key confirmation with the user-rejected
\* error; a refused revocation ends it with a normal result that reports that
\* nothing was revoked (revoked false, or a count of 0 without domains).
C26_RefusalOutcomes ==
    \A r \in Slots :
        LET rec == req[r]
        IN  /\ Refused(rec, "dialog:domainApproval") =>
                  /\ rec.pc = "thrown"
                  /\ rec.result.error = Error("Domain access denied by user")
            /\ (\E e \in AllDialogs \ ({"dialog:domainApproval"} \cup RevokeDialogs) :
                   Refused(rec, e)) =>
                  /\ rec.pc = "thrown"
                  /\ rec.result.error = UserRejected
                  /\ rec.result.value = NoValue
            /\ Refused(rec, "dialog:revokeDomain") =>
                  /\ rec.pc = "returned"
                  /\ rec.result.value.revoked = "false"
                  /\ rec.result.value.domain = ""
            /\ Refused(rec, "dialog:revokeAllDomains") =>
                  /\ rec.pc = "returned"
                  /\ rec.result.value.count = 0
                  /\ rec.result.value.domains = <<>>

\* a refused revokeAllDomains returned a count of 0 and left the list alone
C26_Witness ==
    \E r \in Slots :
        /\ req[r].method = "revokeAllDomains"
        /\ AnsweredWith(req[r], "dialog:revokeAllDomains", "false")
        /\ req[r].pc = "returned"
        /\ req[r].result.value.count = 0
        /\ Len(state.approvedDomains) = 2

(***************************************************************************)
(* Keys and signatures                                                     *)
(***************************************************************************)
\* the root node that the host returned to the request
RootOf(rec, n) == AnsweredWith(rec, "getBip32Entropy", n)

\* C27: a signTransaction that returned carries one signature, made over the
\* decoded bytes of the submitted message with the key derived from the
\* root node of the request along its derivation path, and the public key of
\* that same keypair.
C27_SignatureOverMessageWithDerivedKey ==
    \A r \in Slots :
        (req[r].method = "signTransaction" /\ req[r].pc = "returned") =>
            LET v == req[r].result.value
                p == req[r].params
            IN  /\ Len(v.signatures) = 1
                /\ v.signatures[1].bytes = [b58 |-> p.message.s, pad |-> 0]
                /\ v.publicKey.derived
                /\ v.publicKey.path = p.derivationPath.items
                /\ RootOf(req[r], v.publicKey.root)
                /\ v.signatures[1].key =
                      [root |-> v.publicKey.root, path |-> v.publicKey.path]
                /\ AnsweredWith(req[r], "dialog:signTransaction", "true")

C27_Witness ==
    \E r \in Slots :
        /\ req[r].method = "signTransaction"
        /\ req[r].pc = "returned"
        /\ req[r].params.derivationPath = PathHardened
        /\ req[r].params.message = MsgA
        /\ RootOf(req[r], "rootB")
        /\ req[r].result.value.signatures[1].key.root = "rootB"

\* C28: the keypair of a request is made of the root node the host returned
\* to that request and of the path of that request, and of nothing else; a
\* request that holds or returns a keypair has asked the host for the root
\* node exactly once, no request asks twice, and a request that has not asked
\* holds no keypair.
C28_KeyPairFromOwnEntropyAndPath ==
    \A r \in Slots :
        LET rec == req[r]
            asked == Cardinality({i \in 1..Len(rec.events) :
                                     rec.events[i].e = "getBip32Entropy"})
        IN  /\ asked <= 1
            /\ asked = 0 => rec.keyPair = NoKeyPair
            /\ rec.keyPair # NoKeyPair =>
                  /\ asked = 1
                  /\ \E n \in {"rootA", "rootB"} :
                        /\ RootOf(rec, n)
                        /\ rec.keyPair =
                              [derived |-> TRUE, root |-> n,
                               path |-> rec.params.derivationPath.items]
            /\ rec.result.value.publicKey # NoKeyPair =>
                  rec.result.value.publicKey = rec.keyPair
            /\ rec.method \in DeriveMethods /\ rec.pc = "returned" =>
                  asked = 1 /\ rec.result.value.publicKey = rec.keyPair

C28_Witness ==
    \E r \in Slots :
        /\ req[r].method = "getPublicKey"
        /\ req[r].pc = "returned"
        /\ req[r].params.derivationPath = PathHardened2
        /\ RootOf(req[r], "rootB")
        /\ req[r].result.value.publicKey.root = "rootB"
        /\ req[r].pre.genesisHash # ""

(***************************************************************************)
(* Overlapping writes                                                      *)
(***************************************************************************)
\* C29: with overlapping requests no write discards what another request has
\* committed: a cached genesis hash stays, an approved hostname leaves the
\* list only in the step of an accepted revocation of it, and a hostname
\* enters the list only in the write of the approval of an origin with that
\* hostname.
C29_NoLostUpdate ==
    [][ /\ state.genesisHash # "" => state'.genesisHash = state.genesisHash
        /\ \A i \in 1..Len(state.approvedDomains) :
              LET h == state.approvedDomains[i]
              IN  ~InList(state'.approvedDomains, h) =>
                     \E r \in Slots :
                        \/ /\ req[r].pc = "revokeConfirm"
                           /\ DomainParam(req[r]) = h
                           /\ AnsweredWith(req'[r], "dialog:revokeDomain", "true")
                        \/ /\ req[r].pc = "revokeAllConfirm"
                           /\ AnsweredWith(req'[r], "dialog:revokeAllDomains", "true")
        /\ \A i \in 1..Len(state'.approvedDomains) :
              LET h == state'.approvedDomains[i]
              IN  ~InList(state.approvedDomains, h) =>
                     \E r \in Slots :
                        /\ req[r].pc = "approvalSetState"
                        /\ req'[r].pc = "dispatch"
                        /\ HostOf(req[r].origin) = h ]_vars

(***************************************************************************)
(* isValidSegment                                                          *)
(***************************************************************************)
\* the text before the last character of the text of a segment
IndexDigits(segment) == SubSeq(segment.s, 1, Len(segment.s) - 1)

\* a string of one or more decimal digits, without a leading zero unless it is
\* the single digit 0, followed by one apostrophe
HardenedIndexForm(segment) ==
    /\ segment.t = "string"
    /\ segment.pad = 0
    /\ Len(segment.s) >= 2
    /\ SubSeq(segment.s, Len(segment.s), Len(segment.s)) = "'"
    /\ \A i \in 1..(Len(segment.s) - 1) :
          SubSeq(segment.s, i, i) \in
             {"0", "1", "2", "3", "4", "5", "6", "7", "8", "9"}
    /\ Len(segment.s) > 2 => SubSeq(segment.s, 1, 1) # "0"

\* the verdict of path.every(isValidSegment) that deriveKeyPair has computed
\* for a request
ComputedVerdict(rec) == rec.everyValid = "true"

HasVerdict(rec) ==
    rec.everyValid # "" /\ rec.params.derivationPath.t = "array"

\* C30 as stated: the verdict on a path is true exactly if every segment has
\* the form digits-without-leading-zero and apostrophe.
C30_ValidSegmentIffHardenedIndexForm ==
    \A r \in Slots :
        HasVerdict(req[r]) =>
            (ComputedVerdict(req[r]) <=>
                \A i \in 1..Len(req[r].params.derivationPath.items) :
                    HardenedIndexForm(req[r].params.derivationPath.items[i]))

\* C30: the verdict is true if every segment has the form and at most 15
\* digits; it is false if some segment does not have the form, or has the form
\* with 22 digits or more.
C30_ValidSegmentIffSmallHardenedIndex ==
    \A r \in Slots :
        LET segs == req[r].params.derivationPath.items
        IN  HasVerdict(req[r]) =>
               /\ (\A i \in 1..Len(segs) :
                      HardenedIndexForm(segs[i]) /\ Len(segs[i].s) <= 16)
                     => ComputedVerdict(req[r])
               /\ (\E i \in 1..Len(segs) :
                      \/ ~HardenedIndexForm(segs[i])
                      \/ Len(segs[i].s) >= 23)
                     => ~ComputedVerdict(req[r])

\* verdicts on an index of 22 digits and on the largest 15-digit index
C30_Witness ==
    \E r \in Slots :
        /\ HasVerdict(req[r])
        /\ req[r].params.derivationPath.items \in
              {<<Str("1000000000000000000000'")>>, <<Str("999999999999999'")>>}
        /\ req[r].pc = "returned"

(***************************************************************************)
(* Decoding, chain resolution and the signing dialog                       *)
(***************************************************************************)
\* the errors of the base58 decoding of a payload
DecodeErrors ==
    {Error("Invalid base58 transaction"),
     Error("Invalid base58 transaction in batch"),
     Error("Invalid base58 message")}

ThrewDecodeError(rec) ==
    rec.pc = "thrown" /\ rec.result.error \in DecodeErrors

\* the signing dialog of a signing method
SignDialogOf(method) ==
    CASE method = "signTransaction" -> "dialog:signTransaction"
      [] method = "signAllTransactions" -> "dialog:signAllTransactions"
      [] method = "signMessage" -> "dialog:signMessage"
      [] OTHER -> "none"

\* C31 as stated: a decode error occurs only in a request whose signing
\* dialog was shown and accepted.
C31_DecodeOnlyAfterAcceptedDialog ==
    \A r \in Slots :
        ThrewDecodeError(req[r]) =>
            AnsweredWith(req[r], SignDialogOf(req[r].method), "true")

\* C31: in signTransaction and signAllTransactions a decode error occurs only
\* after the signing dialog was accepted; in signMessage the message is decoded
\* before the dialog, so its decode error occurs only in a request that has
\* shown no signing dialog, and its dialog is shown only for a message that
\* decodes.
C31_DecodeOrderPerMethod ==
    \A r \in Slots :
        LET rec == req[r]
        IN  /\ ThrewDecodeError(rec)
                /\ rec.method \in {"signTransaction", "signAllTransactions"}
               => AnsweredWith(rec, SignDialogOf(rec.method), "true")
            /\ ThrewDecodeError(rec) /\ rec.method = "signMessage"
               => /\ ~HasEvent(rec, "dialog:signMessage")
                  /\ HasForeignChar(rec.params.message.s)
            /\ HasEvent(rec, "dialog:signMessage")
               => ~HasForeignChar(rec.params.message.s)
            /\ ThrewDecodeError(rec) => rec.method \in SignMethods

\* signMessage has failed on an undecodable message without any dialog
C31_Witness ==
    \E r \in Slots :
        /\ ThrewDecodeError(req[r])
        /\ req[r].method = "signMessage"
        /\ req[r].result.error = Error("Invalid base58 message")
        /\ req[r].keyPair.derived
        /\ ~HasEvent(req[r], "dialog:signMessage")

\* the errors of a failed chain resolution
ChainResolutionErrors ==
    {Error("Request timeout: failed to fetch genesis hash from Solaxy RPC"),
     Error("Failed to resolve Solaxy genesis hash: network"),
     Error("Failed to resolve Solaxy genesis hash: status"),
     Error("Failed to resolve Solaxy genesis hash: empty")}

FetchFailed(rec) == \E k \in FetchFailures : AnsweredWith(rec, "fetch", k)

SignDialogs ==
    {"dialog:signTransaction", "dialog:signAllTransactions", "dialog:signMessage"}

\* the place of the first event named e in the log of a request, 0 if none
FirstEvent(rec, e) ==
    IF HasEvent(rec, e)
    THEN CHOOSE i \in 1..Len(rec.events) :
            /\ rec.events[i].e = e
            /\ \A j \in 1..(i - 1) : rec.events[j].e # e
    ELSE 0

\* C32: a signing request whose chain resolution failed has thrown the
\* chain-resolution error, has shown no signing dialog and has no result
\* value; a signing dialog is shown only with the chain resolved, and after
\* the fetch of the request if there was one.
C32_ChainResolvedBeforeSignDialog ==
    \A r \in Slots :
        LET rec == req[r]
        IN  rec.method \in SignMethods =>
               /\ FetchFailed(rec) =>
                     /\ rec.pc = "thrown"
                     /\ rec.result.error \in ChainResolutionErrors
                     /\ \A e \in SignDialogs : ~HasEvent(rec, e)
                     /\ rec.result.value.signatures = <<>>
               /\ \A e \in SignDialogs :
                     HasEvent(rec, e) =>
                        /\ rec.cfg \in GenesisResults
                        /\ HasEvent(rec, "fetch") =>
                              /\ AnsweredWith(rec, "fetch", "ok")
                              /\ FirstEvent(rec, "fetch") < FirstEvent(rec, e)

\* a signing request has failed on each kind of fetch failure
C32_Witness ==
    \E r \in Slots :
        /\ req[r].method \in SignMethods
        /\ FetchFailed(req[r])
        /\ req[r].pc = "thrown"
        /\ req[r].keyPair.derived

(***************************************************************************)
(* The approved list                                                       *)
(***************************************************************************)
UpperCaseLetters ==
    {"A", "B", "C", "D", "E", "F", "G", "H", "I", "J", "K", "L", "M",
     "N", "O", "P", "Q", "R", "S", "T", "U", "V", "W", "X", "Y", "Z"}

IsLowerCase(h) ==
    \A i \in 1..Len(h) : SubSeq(h, i, i) \notin UpperCaseLetters

\* the request in slot r is about to store the hostname h of its origin
\* after its approval dialog was accepted
StoresApproval(r, h) ==
    /\ req[r].pc = "approvalSetState"
    /\ AnsweredWith(req[r], "dialog:domainApproval", "true")
    /\ IsHttps(req[r].origin)
    /\ HostOf(req[r].origin) = h

\* C33: every hostname of the approved list is in lower case and is neither
\* the root trusted domain nor a subdomain of it, and a hostname enters the
\* list only in the step of a request of an HTTPS origin with that hostname
\* whose approval dialog was accepted.
C33_ApprovedHostsAreHttpsLowercaseNotHardcoded ==
    /\ [](\A i \in 1..Len(state.approvedDomains) :
             /\ IsLowerCase(state.approvedDomains[i])
             /\ ~IsRootOrSubdomain(state.approvedDomains[i]))
    /\ [][\A i \in 1..Len(state'.approvedDomains) :
             ~InList(state.approvedDomains, state'.approvedDomains[i]) =>
                \E r \in Slots : StoresApproval(r, state'.approvedDomains[i])]_vars

\* an origin written with capital letters was approved and its hostname is
\* in the list, next to another approved hostname
C33_Witness ==
    /\ Len(state.approvedDomains) = 2
    /\ \E r \in Slots :
          /\ req[r].origin.host = "Partner.COM"
          /\ AnsweredWith(req[r], "dialog:domainApproval", "true")
          /\ HasEvent(req[r], "setState")
          /\ InList(state.approvedDomains, "partner.com")

\* the methods that neither approve nor revoke
ReadingMethods ==
    ConfigMethods \cup {"wallet_addEthereumChain", "getPublicKey",
                        "listApprovedDomains"} \cup SignMethods

\* the step is the one in which the request in slot r stores an approval or
\* carries out a revocation that its dialog has accepted
ApprovalOrRevocationStep(r) ==
    \/ /\ req[r].pc = "approvalSetState"
       /\ AnsweredWith(req[r], "dialog:domainApproval", "true")
    \/ /\ req[r].pc = "revokeConfirm"
       /\ AnsweredWith(req'[r], "dialog:revokeDomain", "true")
    \/ /\ req[r].pc = "revokeAllConfirm"
       /\ AnsweredWith(req'[r], "dialog:revokeAllDomains", "true")

\* C34: a step changes the approved list only if it stores an accepted
\* approval or carries out an accepted revocation, and while a request of a
\* method other than the revocations runs from an origin that was allowed
\* without a dialog, the approved list stays as it was when the request came
\* in, also after the request has written the genesis hash.
C34_ApprovedListChangesOnlyByApprovalOrRevocation ==
    /\ [][state'.approvedDomains # state.approvedDomains =>
             \E r \in Slots : ApprovalOrRevocationStep(r)]_vars
    /\ [](\A r \in Slots :
             /\ Active(req[r])
             /\ req[r].method \in ReadingMethods
             /\ ~HasEvent(req[r], "dialog:domainApproval")
             => state.approvedDomains = req[r].pre.approvedDomains)

\* a chain-info request from an approved origin has written the genesis hash
\* and the approved list is as before
C34_Witness ==
    \E r \in Slots :
        /\ req[r].method \in ConfigMethods
        /\ req[r].pc = "returned"
        /\ ~HasEvent(req[r], "dialog:domainApproval")
        /\ AnsweredWith(req[r], "fetch", "ok")
        /\ HasEvent(req[r], "setState")
        /\ req[r].pre.genesisHash = NoHash
        /\ state.genesisHash # NoHash
        /\ state.approvedDomains = <<"partner.com">>
        /\ HostOf(req[r].origin) = "partner.com"

\* h is a subdomain of the hostname a
IsSubdomainOf(h, a) ==
    /\ Len(h) > Len(a) + 1
    /\ SubSeq(h, Len(h) - Len(a), Len(h)) = "." \o a

\* the request was let through the origin check without an approval dialog
AllowedWithoutDialog(rec) ==
    ReachedDispatch(rec) /\ ~HasEvent(rec, "dialog:domainApproval")

\* C35: a request of an origin outside the hardcoded tier is let through
\* without the approval dialog only if exactly the hostname of its origin was
\* in the approved list when it came in; an HTTPS request from a subdomain of
\* an approved hostname that is not itself in the list gets the approval
\* dialog.
C35_ApprovalsAreExactMatches ==
    \A r \in Slots :
        LET rec == req[r]
            h == HostOf(rec.origin)
        IN  /\ AllowedWithoutDialog(rec) /\ ~IsRootOrSubdomain(h)
               => InList(rec.pre.approvedDomains, h)
            /\ /\ Active(rec)
               /\ IsHttps(rec.origin)
               /\ ~IsRootOrSubdomain(h)
               /\ ~InList(rec.pre.approvedDomains, h)
               /\ \E i \in 1..Len(rec.pre.approvedDomains) :
                     IsSubdomainOf(h, rec.pre.approvedDomains[i])
               => HasEvent(rec, "dialog:domainApproval")

\* a request from solaxy.io.partner.com, with partner.com approved and the
\* subdomain not, has got the approval dialog
C35_Witness ==
    \E r \in Slots :
        /\ HostOf(req[r].origin) = "solaxy.io.partner.com"
        /\ IsHttps(req[r].origin)
        /\ req[r].pre.approvedDomains = <<"partner.com">>
        /\ HasEvent(req[r], "dialog:domainApproval")

\* the text of the root trusted domain occurs somewhere in h
ContainsRoot(h) ==
    \E i \in 1..Len(h) :
        i + 8 <= Len(h) /\ SubSeq(h, i, i + 8) = "solaxy.io"

\* C36: a request is let through without the approval dialog and without its
\* hostname in the approved list only if the hostname is the root domain or
\* ends with "." and the root domain; an HTTPS request from a hostname that
\* contains the text of the root domain in another way (evilsolaxy.io,
\* solaxy.io.partner.com) and is not in the approved list gets the approval
\* dialog.
C36_HardcodedTierNeedsDotSeparator ==
    \A r \in Slots :
        LET rec == req[r]
            h == HostOf(rec.origin)
        IN  /\ AllowedWithoutDialog(rec) /\ ~InList(rec.pre.approvedDomains, h)
               => h = "solaxy.io" \/ IsSubdomainOf(h, "solaxy.io")
            /\ /\ Active(rec)
               /\ IsHttps(rec.origin)
               /\ ContainsRoot(h)
               /\ h # "solaxy.io"
               /\ ~IsSubdomainOf(h, "solaxy.io")
               /\ ~InList(rec.pre.approvedDomains, h)
               => /\ HasEvent(rec, "dialog:domainApproval")
                  /\ rec.events[1].e = "dialog:domainApproval"

\* a request from evilsolaxy.io has got the approval dialog
C36_Witness ==
    \E r \in Slots :
        /\ HostOf(req[r].origin) = "evilsolaxy.io"
        /\ IsHttps(req[r].origin)
        /\ ~InList(req[r].pre.approvedDomains, "evilsolaxy.io")
        /\ HasEvent(req[r], "dialog:domainApproval")

\* C37: whatever the approved list holds and whatever was revoked before, a
\* request of an HTTPS origin on the root trusted domain or a subdomain of it
\* is let through without the approval dialog, and a revokeDomain request
\* that names the root trusted domain or a subdomain of it fails with
\* 'Domain not in approved list', without a dialog and without a write.
C37_HardcodedTrustNotRevocable ==
    \A r \in Slots :
        LET rec == req[r]
        IN  /\ /\ Active(rec)
               /\ IsHttps(rec.origin)
               /\ IsRootOrSubdomain(HostOf(rec.origin))
               => /\ AllowedWithoutDialog(rec)
                  /\ rec.pc = "thrown" => rec.result.error \notin GatewayErrors
            /\ /\ HasDomainString(rec)
               /\ IsRootOrSubdomain(DomainParam(rec))
               /\ ReachedDispatch(rec)
               /\ rec.pc # "dispatch"
               => /\ rec.pc = "thrown"
                  /\ rec.result.error = Error("Domain not in approved list")
                  /\ ~HasEvent(rec, "dialog:revokeDomain")
                  /\ state.approvedDomains = StateAfterGateway(rec).approvedDomains

\* a request of a hardcoded origin has named the root domain in revokeDomain
\* while other hostnames were approved, and has failed
C37_Witness ==
    \E r \in Slots :
        /\ IsHttps(req[r].origin)
        /\ IsRootOrSubdomain(HostOf(req[r].origin))
        /\ req[r].method = "revokeDomain"
        /\ DomainParam(req[r]) = "solaxy.io"
        /\ Len(state.approvedDomains) > 0
        /\ req[r].pc = "thrown"

(***************************************************************************)
(* The signing dialogs                                                     *)
(***************************************************************************)
Min(a, b) == IF a < b THEN a ELSE b

\* the host and port of an origin as the dialogs show it
ShownHostOf(origin) == HostOf(origin) \o origin.port

\* C38: the dialog of signAllTransactions for a batch of n > 1 messages lists
\* min(n, 10) transactions, the i-th entry being the i-th message of the
\* batch captioned "Transaction i of n", and carries the notice that only the
\* first ones are shown exactly if n > 10.
C38_BatchDialogListsFirstTen ==
    \A r \in Slots :
        LET rec == req[r]
            msgs == BatchOf(rec)
            n == Len(msgs)
        IN  (HasEvent(rec, "dialog:signAllTransactions") /\ n > 1) =>
               /\ rec.panel.heading = "Sign transactions"
               /\ Len(rec.panel.items) = Min(n, 10)
               /\ \A i \in 1..Len(rec.panel.items) :
                     /\ rec.panel.items[i].index = i
                     /\ rec.panel.items[i].of = n
                     /\ rec.panel.items[i].copy.text = msgs[i].s
               /\ rec.panel.notice <=> n > 10

\* dialogs for batches of two, of ten and of eleven messages
C38_Witness ==
    \E r \in Slots :
        /\ HasEvent(req[r], "dialog:signAllTransactions")
        /\ Len(BatchOf(req[r])) = 11
        /\ Len(req[r].panel.items) = 10
        /\ req[r].panel.items[10].copy.text = MsgB.s
        /\ req[r].panel.notice

\* the dialog for a batch of exactly ten messages has no notice
C38_WitnessTen ==
    \E r \in Slots :
        /\ HasEvent(req[r], "dialog:signAllTransactions")
        /\ Len(BatchOf(req[r])) = 10
        /\ Len(req[r].panel.items) = 10
        /\ ~req[r].panel.notice

\* the confirmation of a single transaction: heading, website and the
\* message as base58 text, without caption and without notice
SingleItemPanel(origin, message) ==
    [heading |-> "Sign transaction", host |-> ShownHostOf(origin),
     items |-> <<[index |-> 0, of |-> 0,
                  copy |-> [label |-> "Transaction (base58):",
                            text |-> message.s,
                            truncated |-> Len(message.s) + message.pad > 1200]]>>,
     notice |-> FALSE]

\* C39: the dialog of signAllTransactions for a batch of exactly one message
\* is the confirmation of a single transaction for that message, which is
\* also what signTransaction shows for its message, and the request returns
\* an array of exactly one signature, made over that message.
C39_BatchOfOneIsSingleRendering ==
    \A r \in Slots :
        LET rec == req[r]
        IN  /\ (HasEvent(rec, "dialog:signAllTransactions")
                  /\ Len(BatchOf(rec)) = 1) =>
                   /\ rec.panel = SingleItemPanel(rec.origin, BatchOf(rec)[1])
                   /\ rec.pc = "returned" =>
                         /\ rec.result.value.t = "signatures"
                         /\ Len(rec.result.value.signatures) = 1
                         /\ rec.result.value.signatures[1].bytes.b58
                               = BatchOf(rec)[1].s
            /\ HasEvent(rec, "dialog:signTransaction") =>
                   rec.panel = SingleItemPanel(rec.origin, rec.params.message)

\* a batch of one message was confirmed and signed
C39_Witness ==
    \E r \in Slots :
        /\ req[r].method = "signAllTransactions"
        /\ BatchOf(req[r]) = <<MsgA>>
        /\ AnsweredWith(req[r], "dialog:signAllTransactions", "true")
        /\ req[r].pc = "returned"
        /\ req[r].panel.heading = "Sign transaction"

\* C40: a signAllTransactions request with an empty messages array that got
\* through the origin check fails with the invalid-input error before root
\* entropy is requested and before any signing dialog, and never returns an
\* empty array of signatures.
C40_EmptyBatchRejected ==
    \A r \in Slots :
        LET rec == req[r]
        IN  /\ rec.method = "signAllTransactions"
            /\ rec.params.messages.t = "array"
            /\ BatchOf(rec) = <<>>
            /\ ReachedDispatch(rec)
            => /\ ~HasEvent(rec, "getBip32Entropy")
               /\ ~HasEvent(rec, "dialog:signAllTransactions")
               /\ rec.pc = "thrown" => rec.result.error = ERR_INVALID_INPUT
               /\ rec.pc # "returned"
====
